---- MODULE Spec2Model ----
(***************************************************************************)
(* Model of the Dgraph mutation builder (src/mutation_builder.py and the   *)
(* relation handlers under src/relations/), of the entity detector         *)
(* (src/entity_detector.py) and of the upsert the graph store performs on  *)
(* the mutation that upload_to_dgraph posts (src/dgraph_client.py).        *)
(*                                                                         *)
(* Text is a sequence of tokens.  A token is one character, except the     *)
(* two tokens "_respondant" and "doc_", which stand for exactly those      *)
(* substrings; no other token holds one of their letters r,e,s,p,o,n,d,t,c *)
(* so a text has one token sequence and the substring tests of the code    *)
(* (replace, in, startswith) are tests on tokens.                          *)
(***************************************************************************)
EXTENDS Integers, Sequences, FiniteSets, TLC

VARIABLES
    documents,   \* the batch handed to the last build_mutation call
    handlers,    \* the MutationBuilder's relation handlers (their local_* dicts)
    mutation,    \* what the last build_mutation call returned (or that it raised)
    builds,      \* number of mutations built so far
    store,       \* the nodes the graph store holds
    uploads,     \* number of mutations applied to the store
    monitor_state,       \* api_state.monitor_state: is_running, total_processed
    tasks,               \* the coroutines and processes: where each one is
    current,             \* the task that holds the event loop's thread ("": none)
    processed_entities,  \* per indexed document, the entity types marked true
    response,            \* the last HTTP response of the service
    requests,            \* number of HTTP requests so far
    index,               \* the documents the Elasticsearch index holds
    call                 \* one call of a function with a retry loop

builder == <<documents, handlers, mutation, builds, uploads>>
service == <<monitor_state, tasks, current, processed_entities, response, requests, index>>
vars == <<documents, handlers, mutation, builds, store, uploads, monitor_state, tasks, current, processed_entities, response, requests, index, call>>

\* ------------------------------------------------------------------ text

SP == " "
QUOTE == "\""
BACKSLASH == "\\"
USCORE == "_"
RESPONDANT == "_respondant"
DOCPFX == "doc_"
DIGIT == "1"

\* str.strip(): leading and trailing whitespace removed
RECURSIVE LStrip(_)
LStrip(s) == IF s # <<>> /\ Head(s) = SP THEN LStrip(Tail(s)) ELSE s

RECURSIVE RStrip(_)
RStrip(s) ==
    IF s # <<>> /\ s[Len(s)] = SP THEN RStrip(SubSeq(s, 1, Len(s) - 1)) ELSE s

Strip(s) == RStrip(LStrip(s))

\* text.replace('"', '\\"')
RECURSIVE EscapeQuotes(_)
EscapeQuotes(s) ==
    IF s = <<>> THEN <<>>
    ELSE IF Head(s) = QUOTE THEN <<BACKSLASH, QUOTE>> \o EscapeQuotes(Tail(s))
    ELSE <<Head(s)>> \o EscapeQuotes(Tail(s))

\* advocate_key.replace("_respondant", "")
RECURSIVE RemoveRespondant(_)
RemoveRespondant(s) ==
    IF s = <<>> THEN <<>>
    ELSE IF Head(s) = RESPONDANT THEN RemoveRespondant(Tail(s))
    ELSE <<Head(s)>> \o RemoveRespondant(Tail(s))

\* "_respondant" in advocate_key
ContainsRespondant(s) == \E i \in 1..Len(s) : s[i] = RESPONDANT

\* hashlib.md5(text.encode('utf-8')).hexdigest()[:12]: a fixed function of the
\* text alone, cut to a fixed width, hence not injective.  The digest is
\* modelled by a positional code of the tokens, cut to HashSpace values: texts
\* of up to three tokens get distinct identifiers, longer ones may collide.
HashBase == 11
HashSpace == 14641

TokenCode(t) ==
    CASE t = "a" -> 1
      [] t = "b" -> 2
      [] t = SP -> 3
      [] t = QUOTE -> 4
      [] t = USCORE -> 5
      [] t = RESPONDANT -> 6
      [] t = DOCPFX -> 7
      [] t = BACKSLASH -> 8
      [] OTHER -> 9

RECURSIVE Digest(_)
Digest(s) ==
    IF s = <<>> THEN 0 ELSE TokenCode(Head(s)) + HashBase * Digest(Tail(s))

get_hash(text) == Digest(text) % HashSpace

\* a lookup variable: f"{prefix}_{hash}", or f"main_{idx}"
Var(prefix, n) == [n |-> n, pfx |-> prefix]

\* ---------------------------------------------------------- JSON values

\* A field of a document's _source: absent, null, a string, a list, a number.
Missing == [k |-> "missing", v |-> <<>>]
Null == [k |-> "null", v |-> <<>>]
Str(s) == [k |-> "str", v |-> s]
Lst(items) == [k |-> "list", v |-> items]
Num == [k |-> "num", v |-> <<>>]     \* a number other than 0

\* Python truth value of a field (None for an absent one)
Truthy(x) ==
    CASE x.k = "str" -> x.v # <<>>
      [] x.k = "list" -> x.v # <<>>
      [] x.k = "num" -> TRUE
      [] OTHER -> FALSE

\* --------------------------------------------------------- extraction

\* source.get(field, '').strip() : AttributeError unless the field is absent
\* or a string
StripField(x) ==
    CASE x.k = "missing" -> [ok |-> TRUE, val |-> <<>>]
      [] x.k = "str" -> [ok |-> TRUE, val |-> Strip(x.v)]
      [] OTHER -> [ok |-> FALSE, val |-> <<>>]

\* [x.strip() for x in items if x and x.strip()] : a falsy item is skipped, a
\* truthy item that is not a string has no strip() and raises
RECURSIVE CleanList(_)
CleanList(items) ==
    IF items = <<>> THEN [ok |-> TRUE, val |-> <<>>]
    ELSE LET j == Head(items)
             rest == CleanList(Tail(items))
         IN  IF ~Truthy(j) THEN rest
             ELSE IF j.k # "str" THEN [ok |-> FALSE, val |-> <<>>]
             ELSE IF Strip(j.v) = <<>> THEN rest
             ELSE [ok |-> rest.ok, val |-> <<Strip(j.v)>> \o rest.val]

\* if not isinstance(x, list): x = [x] if x else []
EnsureList(x) ==
    IF x.k = "list" THEN x.v ELSE IF Truthy(x) THEN <<x>> ELSE <<>>

\* json.loads(text) for the texts of the model's documents: the JSON texts
\* among them are a string literal (optional spaces around a quoted text with
\* no quote inside) and a number (digits only); the others give a
\* JSONDecodeError.
JsonLoads(s) ==
    LET t == Strip(s)
        n == Len(t)
    IN  IF /\ n >= 2
           /\ t[1] = QUOTE
           /\ t[n] = QUOTE
           /\ \A i \in 2..(n - 1) : t[i] # QUOTE
        THEN [ok |-> TRUE, val |-> Str(SubSeq(t, 2, n - 1))]
        ELSE IF n >= 1 /\ \A i \in 1..n : t[i] = DIGIT
        THEN [ok |-> TRUE, val |-> Num]
        ELSE [ok |-> FALSE, val |-> Null]

\* iterating a Python value: a list gives its items, a string its characters
Iterate(x) ==
    CASE x.k = "list" -> [ok |-> TRUE, val |-> x.v]
      [] x.k = "str" -> [ok |-> TRUE, val |-> [i \in 1..Len(x.v) |-> Str(<<x.v[i]>>)]]
      [] OTHER -> [ok |-> FALSE, val |-> <<>>]

\* CitationRelation.extract_citations
extract_citations(source) ==
    LET citations == source.citations
        loaded == JsonLoads(citations.v)
        asList ==
            IF citations.k = "str"
            THEN IF loaded.ok THEN loaded.val
                 ELSE Lst(IF citations.v # <<>> THEN <<citations>> ELSE <<>>)
            ELSE IF citations.k = "list" THEN citations
            ELSE Lst(<<>>)
        it == Iterate(asList)
    IN  IF it.ok THEN CleanList(it.val) ELSE [ok |-> FALSE, val |-> <<>>]

\* JudgeRelation.extract_judges
extract_judges(source) == CleanList(EnsureList(source.judges))

\* AdvocateRelation.extract_advocates
extract_advocates(source) ==
    LET p == CleanList(EnsureList(source.petitioner_advocates))
        r == CleanList(EnsureList(source.respondant_advocates))
    IN  [ok |-> p.ok /\ r.ok, petitioner |-> p.val, respondant |-> r.val]

\* OutcomeRelation.extract_outcome (None is the empty text: both are falsy)
extract_outcome(source) == StripField(source.outcome)

\* CaseDurationRelation.extract_case_duration
extract_case_duration(source) == StripField(source.case_duration)

\* CourtRelation.extract_court
extract_court(source) ==
    LET n == StripField(source.court)
        l == StripField(source.court_location)
        b == StripField(source.court_bench)
    IN  [ok |-> n.ok /\ l.ok /\ b.ok, name |-> n.val, location |-> l.val,
         bench |-> b.val]

\* extract_judgment_data with a judgment_id that also tells the position of
\* the document in the batch
ExtractJudgmentDataByPosition(doc, idx) ==
    LET source == doc.source
        title == StripField(source.title)
        own == StripField(source.doc_id)
        id0 == IF own.val = <<>> THEN doc.id ELSE own.val
        doc_id == IF id0 # <<>> /\ Head(id0) = DOCPFX THEN Tail(id0) ELSE id0
    IN  [ok |-> title.ok /\ own.ok,
         idx |-> idx,
         title |-> title.val,
         doc_id |-> doc_id,
         year |-> source.year,
         processed_timestamp |-> source.processed_timestamp,
         judgment_id |-> <<"J_">> \o doc_id
                           \o (IF idx > 1 THEN <<USCORE>> ELSE <<>>)]

\* JudgmentRelation.extract_judgment_data
extract_judgment_data(doc, idx) ==
    LET source == doc.source
        title == StripField(source.title)
        own == StripField(source.doc_id)
        id0 == IF own.val = <<>> THEN doc.id ELSE own.val
        doc_id == IF id0 # <<>> /\ Head(id0) = DOCPFX THEN Tail(id0) ELSE id0
    IN  [ok |-> title.ok /\ own.ok,
         idx |-> idx,
         title |-> title.val,
         doc_id |-> doc_id,
         year |-> source.year,
         processed_timestamp |-> source.processed_timestamp,
         judgment_id |-> <<"J_">> \o doc_id]

\* ----------------------------------------------- clauses, nodes, caches

\* One lookup clause of the query block:
\*   <var> as var(func: eq(<attr>, "<val>")) [@filter(type(<type>) [AND eq(<fattr>, "<fval>")])]
\* type "" is a clause without @filter, fattr "" one without the AND part.
Clause(var, attr, val, type, fattr, fval) ==
    [val |-> val, var |-> var, attr |-> attr, type |-> type, fattr |-> fattr,
     fval |-> fval]

\* One object of the 'set' list: {"uid": "uid(<var>)", "dgraph.type": <type>,
\* <attribute>: <value>, ..., <relation>: [{"uid": "uid(<var>)"}, ...]}.
\* attrs and edges are functions whose domain is the keys the object holds.
Node(var, type, attrs, edges) ==
    [type |-> type, attrs |-> attrs, edges |-> edges, uid |-> var]

NoKeys == [x \in {} |-> <<>>]

\* the text f"{prefix}_{hash}" stored in an identifier attribute
IdText(var) == [k |-> "id", v |-> <<var>>]

\* a local_* dict (insertion ordered): key in dict, dict[key]
InCache(cache, key) == \E i \in 1..Len(cache) : cache[i].key = key
CacheGet(cache, key) == cache[CHOOSE i \in 1..Len(cache) : cache[i].key = key]

\* ------------------------------------------------------ JudgmentRelation

\* build_query_part that names every root variable main_1
RootClauseFirstIndex(judgment_data) ==
    Clause(Var("main", 1), "judgment_id",
           judgment_data.judgment_id, "", "", <<>>)

\* JudgmentRelation.build_query_part: the judgment_id is interpolated as it is
JudgmentRelation_build_query_part(judgment_data) ==
    Clause(Var("main", judgment_data.idx), "judgment_id",
           judgment_data.judgment_id, "", "", <<>>)

\* a key written whatever its value: "judgment_node[name] = value" without
\* the "if value:" around it
UnguardedKey(cond, name, value) == name :> value

\* "if value: judgment_node[name] = value" (judgment.py) and the like in the
\* other handlers: an empty value leaves the key out
OptionalKey(cond, name, value) == IF cond THEN name :> value ELSE NoKeys

\* JudgmentRelation.build_judgment_node
build_judgment_node(judgment_data, citation_vars, judge_vars, petitioner_advocate_vars, respondant_advocate_vars, outcome_var, duration_var, court_var) ==
    Node(Var("main", judgment_data.idx), "Judgment",
         ("judgment_id" :> Str(judgment_data.judgment_id))
           @@ ("title" :> Str(judgment_data.title))
           @@ ("doc_id" :> Str(judgment_data.doc_id))
           @@ OptionalKey(judgment_data.year.k \notin {"missing", "null"},
                          "year", judgment_data.year)
           @@ OptionalKey(Truthy(judgment_data.processed_timestamp),
                          "processed_timestamp",
                          judgment_data.processed_timestamp),
         OptionalKey(citation_vars # <<>>, "cites", citation_vars)
           @@ OptionalKey(judge_vars # <<>>, "judged_by", judge_vars)
           @@ OptionalKey(petitioner_advocate_vars # <<>>,
                          "petitioner_represented_by", petitioner_advocate_vars)
           @@ OptionalKey(respondant_advocate_vars # <<>>,
                          "respondant_represented_by", respondant_advocate_vars)
           @@ OptionalKey(outcome_var # <<>>, "has_outcome", outcome_var)
           @@ OptionalKey(duration_var # <<>>, "has_case_duration", duration_var)
           @@ OptionalKey(court_var # <<>>, "court_heard_in", court_var))

\* ------------------------------------------------------ CitationRelation

\* CitationRelation.build_query_parts
RECURSIVE CitationRelation_build_query_parts(_, _)
CitationRelation_build_query_parts(local_citations, citations) ==
    IF citations = <<>>
    THEN [vars |-> <<>>, cache |-> local_citations, parts |-> <<>>]
    ELSE LET citation == Head(citations)
             new == ~InCache(local_citations, citation)
             cache1 ==
                 IF new
                 THEN Append(local_citations,
                             [key |-> citation, hash |-> get_hash(citation)])
                 ELSE local_citations
             var == Var("cite", CacheGet(cache1, citation).hash)
             part ==
                 IF new
                 THEN <<Clause(var, "title", EscapeQuotes(citation), "", "", <<>>)>>
                 ELSE <<>>
             rest == CitationRelation_build_query_parts(cache1, Tail(citations))
         IN  [vars |-> <<var>> \o rest.vars, cache |-> rest.cache,
              parts |-> part \o rest.parts]

\* build_citation_nodes that leaves the cited judgments to the root nodes
CitationNodesOmitted(local_citations) == <<>>

\* CitationRelation.build_citation_nodes
build_citation_nodes(local_citations) ==
    [i \in 1..Len(local_citations) |->
        Node(Var("cite", local_citations[i].hash), "Judgment",
             "title" :> Str(local_citations[i].key), NoKeys)]

\* --------------------------------------------------------- JudgeRelation

\* JudgeRelation.build_query_parts without the "judge not in local_judges"
\* test, local_judges being a list of pairs: every occurrence is stored again
RECURSIVE JudgeQueryPartsUncached(_, _)
JudgeQueryPartsUncached(local_judges, judges) ==
    IF judges = <<>>
    THEN [vars |-> <<>>, cache |-> local_judges, parts |-> <<>>]
    ELSE LET judge == Head(judges)
             var == Var("judge", get_hash(judge))
             rest == JudgeQueryPartsUncached(
                         Append(local_judges,
                                [key |-> judge, hash |-> get_hash(judge)]),
                         Tail(judges))
         IN  [vars |-> <<var>> \o rest.vars,
              cache |-> rest.cache,
              parts |-> <<Clause(var, "name", EscapeQuotes(judge), "Judge",
                                 "", <<>>)>> \o rest.parts]

\* JudgeRelation.build_query_parts
RECURSIVE JudgeRelation_build_query_parts(_, _)
JudgeRelation_build_query_parts(local_judges, judges) ==
    IF judges = <<>>
    THEN [vars |-> <<>>, cache |-> local_judges, parts |-> <<>>]
    ELSE LET judge == Head(judges)
             new == ~InCache(local_judges, judge)
             cache1 ==
                 IF new
                 THEN Append(local_judges, [key |-> judge, hash |-> get_hash(judge)])
                 ELSE local_judges
             var == Var("judge", CacheGet(cache1, judge).hash)
             part ==
                 IF new
                 THEN <<Clause(var, "name", EscapeQuotes(judge), "Judge", "", <<>>)>>
                 ELSE <<>>
             rest == JudgeRelation_build_query_parts(cache1, Tail(judges))
         IN  [vars |-> <<var>> \o rest.vars, cache |-> rest.cache,
              parts |-> part \o rest.parts]

\* JudgeRelation.build_judge_nodes
build_judge_nodes(local_judges) ==
    [i \in 1..Len(local_judges) |->
        LET var == Var("judge", local_judges[i].hash)
        IN  Node(var, "Judge",
                 ("judge_id" :> IdText(var)) @@ ("name" :> Str(local_judges[i].key)),
                 NoKeys)]

\* ------------------------------------------------------ AdvocateRelation

\* AdvocateRelation.build_query_parts, the loop over petitioner_advocates:
\* the cache key is the name itself
RECURSIVE PetitionerQueryParts(_, _)
PetitionerQueryParts(local_advocates, petitioner_advocates) ==
    IF petitioner_advocates = <<>>
    THEN [vars |-> <<>>, cache |-> local_advocates, parts |-> <<>>]
    ELSE LET advocate == Head(petitioner_advocates)
             new == ~InCache(local_advocates, advocate)
             cache1 ==
                 IF new
                 THEN Append(local_advocates,
                             [key |-> advocate, hash |-> get_hash(advocate)])
                 ELSE local_advocates
             var == Var("adv", CacheGet(cache1, advocate).hash)
             part ==
                 IF new
                 THEN <<Clause(var, "name", EscapeQuotes(advocate), "Advocate",
                               "advocate_type", <<"petitioner">>)>>
                 ELSE <<>>
             rest == PetitionerQueryParts(cache1, Tail(petitioner_advocates))
         IN  [vars |-> <<var>> \o rest.vars, cache |-> rest.cache,
              parts |-> part \o rest.parts]

\* f"{advocate}_respondant"
RespondantKey(advocate) == advocate \o <<RESPONDANT>>

\* AdvocateRelation.build_query_parts, the loop over respondant_advocates
RECURSIVE RespondantQueryParts(_, _)
RespondantQueryParts(local_advocates, respondant_advocates) ==
    IF respondant_advocates = <<>>
    THEN [vars |-> <<>>, cache |-> local_advocates, parts |-> <<>>]
    ELSE LET advocate == Head(respondant_advocates)
             advocate_key == RespondantKey(advocate)
             new == ~InCache(local_advocates, advocate_key)
             cache1 ==
                 IF new
                 THEN Append(local_advocates,
                             [key |-> advocate_key, hash |-> get_hash(advocate_key)])
                 ELSE local_advocates
             var == Var("adv", CacheGet(cache1, advocate_key).hash)
             part ==
                 IF new
                 THEN <<Clause(var, "name", EscapeQuotes(advocate), "Advocate",
                               "advocate_type", <<"respondant">>)>>
                 ELSE <<>>
             rest == RespondantQueryParts(cache1, Tail(respondant_advocates))
         IN  [vars |-> <<var>> \o rest.vars, cache |-> rest.cache,
              parts |-> part \o rest.parts]

\* AdvocateRelation.build_query_parts
AdvocateRelation_build_query_parts(local_advocates, petitioner_advocates, respondant_advocates) ==
    LET p == PetitionerQueryParts(local_advocates, petitioner_advocates)
        r == RespondantQueryParts(p.cache, respondant_advocates)
    IN  [cache |-> r.cache, parts |-> p.parts \o r.parts,
         petitioner_vars |-> p.vars, respondant_vars |-> r.vars]

\* AdvocateRelation.build_advocate_nodes: name and role are read back from
\* the cache key
build_advocate_nodes(local_advocates) ==
    [i \in 1..Len(local_advocates) |->
        LET advocate_key == local_advocates[i].key
            var == Var("adv", local_advocates[i].hash)
            advocate_name == RemoveRespondant(advocate_key)
            advocate_type ==
                IF ContainsRespondant(advocate_key)
                THEN <<"respondant">> ELSE <<"petitioner">>
        IN  Node(var, "Advocate",
                 ("advocate_id" :> IdText(var))
                   @@ ("name" :> Str(advocate_name))
                   @@ ("advocate_type" :> Str(advocate_type)),
                 NoKeys)]

\* ------------------------------------- OutcomeRelation, CaseDurationRelation

\* OutcomeRelation.build_query_parts without the 'not in self.local_outcomes'
\* test: a clause for every occurrence
OutcomeQueryPartsUncached(local_outcomes, outcome) ==
    IF outcome = <<>>
    THEN [var |-> <<>>, cache |-> local_outcomes, parts |-> <<>>]
    ELSE LET outcome_hash == get_hash(outcome)
             outcome_var == Var("outcome", outcome_hash)
         IN  [var |-> <<outcome_var>>,
              cache |-> IF InCache(local_outcomes, outcome) THEN local_outcomes
                        ELSE Append(local_outcomes,
                                    [key |-> outcome, hash |-> outcome_hash]),
              parts |-> <<Clause(outcome_var, "name", EscapeQuotes(outcome),
                                 "Outcome", "", <<>>)>>]

\* OutcomeRelation.build_query_parts (var is <<>> for None)
OutcomeRelation_build_query_parts(local_outcomes, outcome) ==
    IF outcome = <<>>
    THEN [var |-> <<>>, cache |-> local_outcomes, parts |-> <<>>]
    ELSE IF ~InCache(local_outcomes, outcome)
    THEN LET outcome_hash == get_hash(outcome)
             outcome_var == Var("outcome", outcome_hash)
         IN  [var |-> <<outcome_var>>,
              cache |-> Append(local_outcomes,
                               [key |-> outcome, hash |-> outcome_hash]),
              parts |-> <<Clause(outcome_var, "name", EscapeQuotes(outcome),
                                 "Outcome", "", <<>>)>>]
    ELSE [var |-> <<Var("outcome", CacheGet(local_outcomes, outcome).hash)>>,
          cache |-> local_outcomes, parts |-> <<>>]

\* OutcomeRelation.build_outcome_nodes
build_outcome_nodes(local_outcomes) ==
    [i \in 1..Len(local_outcomes) |->
        LET var == Var("outcome", local_outcomes[i].hash)
        IN  Node(var, "Outcome",
                 ("outcome_id" :> IdText(var))
                   @@ ("name" :> Str(local_outcomes[i].key)),
                 NoKeys)]

\* CaseDurationRelation.build_query_parts
CaseDurationRelation_build_query_parts(local_case_durations, case_duration) ==
    IF case_duration = <<>>
    THEN [var |-> <<>>, cache |-> local_case_durations, parts |-> <<>>]
    ELSE IF ~InCache(local_case_durations, case_duration)
    THEN LET duration_hash == get_hash(case_duration)
             duration_var == Var("duration", duration_hash)
         IN  [var |-> <<duration_var>>,
              cache |-> Append(local_case_durations,
                               [key |-> case_duration, hash |-> duration_hash]),
              parts |-> <<Clause(duration_var, "duration",
                                 EscapeQuotes(case_duration), "CaseDuration",
                                 "", <<>>)>>]
    ELSE [var |-> <<Var("duration",
                        CacheGet(local_case_durations, case_duration).hash)>>,
          cache |-> local_case_durations, parts |-> <<>>]

\* CaseDurationRelation.build_case_duration_nodes
build_case_duration_nodes(local_case_durations) ==
    [i \in 1..Len(local_case_durations) |->
        LET var == Var("duration", local_case_durations[i].hash)
        IN  Node(var, "CaseDuration",
                 ("case_duration_id" :> IdText(var))
                   @@ ("duration" :> Str(local_case_durations[i].key)),
                 NoKeys)]

\* --------------------------------------------------------- CourtRelation

\* f"{court_name}_{court_location}" if court_location else court_name
CourtKey(court_name, court_location) ==
    IF court_location # <<>>
    THEN court_name \o <<USCORE>> \o court_location
    ELSE court_name

\* CourtRelation.build_query_parts
CourtRelation_build_query_parts(local_courts, court_name, court_location, court_bench) ==
    IF court_name = <<>>
    THEN [var |-> <<>>, cache |-> local_courts, parts |-> <<>>]
    ELSE LET court_key == CourtKey(court_name, court_location)
         IN  IF ~InCache(local_courts, court_key)
             THEN LET court_hash == get_hash(court_key)
                      court_var == Var("court", court_hash)
                  IN  [var |-> <<court_var>>,
                       cache |-> Append(local_courts,
                                        [name |-> court_name,
                                         location |-> court_location,
                                         key |-> court_key, hash |-> court_hash,
                                         bench_type |-> court_bench]),
                       parts |->
                           IF court_location # <<>>
                           THEN <<Clause(court_var, "name",
                                         EscapeQuotes(court_name), "Court",
                                         "location", EscapeQuotes(court_location))>>
                           ELSE <<Clause(court_var, "name",
                                         EscapeQuotes(court_name), "Court",
                                         "", <<>>)>>]
             ELSE [var |-> <<Var("court", CacheGet(local_courts, court_key).hash)>>,
                   cache |-> local_courts, parts |-> <<>>]

\* CourtRelation.build_court_nodes
build_court_nodes(local_courts) ==
    [i \in 1..Len(local_courts) |->
        LET court_data == local_courts[i]
            var == Var("court", court_data.hash)
        IN  Node(var, "Court",
                 ("court_id" :> IdText(var))
                   @@ ("name" :> Str(court_data.name))
                   @@ OptionalKey(court_data.location # <<>>, "location",
                                  Str(court_data.location))
                   @@ OptionalKey(court_data.bench_type # <<>>, "bench_type",
                                  Str(court_data.bench_type)),
                 NoKeys)]

\* ------------------------------------------------------- MutationBuilder

\* MutationBuilder.__init__: every handler starts with an empty dict
NewHandlers ==
    [citations |-> <<>>, judges |-> <<>>, advocates |-> <<>>, outcomes |-> <<>>,
     case_durations |-> <<>>, courts |-> <<>>]

\* build_mutation without its reset() calls: the dicts of the last batch stay
KeepHandlers(h) == h

\* the reset() calls without judge_handler.reset()
KeepJudges(h) == [NewHandlers EXCEPT !.judges = h.judges]

\* the reset() calls at the start of build_mutation
ResetHandlers(h) == NewHandlers

\* The state of one build_mutation call: the handlers, all_query_parts,
\* all_set_nodes, whether an exception has left the call, and the locals of
\* the loop body for the document at hand.
NoLocals ==
    [judgment_data |-> [ok |-> FALSE], citation_vars |-> <<>>, judge_vars |-> <<>>,
     petitioner_advocate_vars |-> <<>>, respondant_advocate_vars |-> <<>>,
     outcome_var |-> <<>>, duration_var |-> <<>>, court_var |-> <<>>]

StartBuild(h) ==
    [h |-> h, query |-> <<>>, set |-> <<>>, raised |-> FALSE, loc |-> NoLocals]

\* An exception leaves build_mutation at once: the dicts keep what the
\* handlers stored before it, no mutation is returned.
Raise(st) == [st EXCEPT !.raised = TRUE]

\* "1. Extract judgment (main node) data": extract_judgment_data,
\* build_query_part, all_query_parts.append
JudgmentStep(st, judgment_data) ==
    IF st.raised THEN st
    ELSE IF ~judgment_data.ok THEN Raise(st)
    ELSE [st EXCEPT !.query = Append(@, JudgmentRelation_build_query_part(judgment_data)),
                    !.loc = [NoLocals EXCEPT !.judgment_data = judgment_data]]

\* "2. Process Citations"
CitationQueries(st, q) ==
    [st EXCEPT !.h.citations = q.cache, !.query = @ \o q.parts,
               !.loc.citation_vars = q.vars]

CitationStep(st, citations) ==
    IF st.raised THEN st
    ELSE IF ~citations.ok THEN Raise(st)
    ELSE CitationQueries(st,
             CitationRelation_build_query_parts(st.h.citations, citations.val))

\* "3. Process Judges"
JudgeQueries(st, q) ==
    [st EXCEPT !.h.judges = q.cache, !.query = @ \o q.parts,
               !.loc.judge_vars = q.vars]

JudgeStep(st, judges) ==
    IF st.raised THEN st
    ELSE IF ~judges.ok THEN Raise(st)
    ELSE JudgeQueries(st, JudgeRelation_build_query_parts(st.h.judges, judges.val))

\* "4. Process Advocates"
AdvocateQueries(st, q) ==
    [st EXCEPT !.h.advocates = q.cache, !.query = @ \o q.parts,
               !.loc.petitioner_advocate_vars = q.petitioner_vars,
               !.loc.respondant_advocate_vars = q.respondant_vars]

AdvocateStep(st, advocates) ==
    IF st.raised THEN st
    ELSE IF ~advocates.ok THEN Raise(st)
    ELSE AdvocateQueries(st,
             AdvocateRelation_build_query_parts(st.h.advocates,
                 advocates.petitioner, advocates.respondant))

\* "5. Process Outcome"
OutcomeQueries(st, q) ==
    [st EXCEPT !.h.outcomes = q.cache, !.query = @ \o q.parts,
               !.loc.outcome_var = q.var]

OutcomeStep(st, outcome) ==
    IF st.raised THEN st
    ELSE IF ~outcome.ok THEN Raise(st)
    ELSE OutcomeQueries(st,
             OutcomeRelation_build_query_parts(st.h.outcomes, outcome.val))

\* "6. Process Case Duration"
DurationQueries(st, q) ==
    [st EXCEPT !.h.case_durations = q.cache, !.query = @ \o q.parts,
               !.loc.duration_var = q.var]

DurationStep(st, case_duration) ==
    IF st.raised THEN st
    ELSE IF ~case_duration.ok THEN Raise(st)
    ELSE DurationQueries(st,
             CaseDurationRelation_build_query_parts(st.h.case_durations,
                 case_duration.val))

\* "7. Process Court"
CourtQueries(st, q) ==
    [st EXCEPT !.h.courts = q.cache, !.query = @ \o q.parts,
               !.loc.court_var = q.var]

CourtStep(st, court) ==
    IF st.raised THEN st
    ELSE IF ~court.ok THEN Raise(st)
    ELSE CourtQueries(st,
             CourtRelation_build_query_parts(st.h.courts, court.name,
                 court.location, court.bench))

\* "8. Build complete judgment node with all relationships"
NodeStep(st) ==
    IF st.raised THEN st
    ELSE [st EXCEPT !.set =
            Append(@, build_judgment_node(st.loc.judgment_data,
                          st.loc.citation_vars, st.loc.judge_vars,
                          st.loc.petitioner_advocate_vars,
                          st.loc.respondant_advocate_vars,
                          st.loc.outcome_var, st.loc.duration_var,
                          st.loc.court_var))]

\* build_mutation, one turn of "for idx, doc in enumerate(documents, 1)"
ProcessDocument(st, doc, idx) ==
    NodeStep(
      CourtStep(
        DurationStep(
          OutcomeStep(
            AdvocateStep(
              JudgeStep(
                CitationStep(
                  JudgmentStep(st, extract_judgment_data(doc, idx)),
                  extract_citations(doc.source)),
                extract_judges(doc.source)),
              extract_advocates(doc.source)),
            extract_outcome(doc.source)),
          extract_case_duration(doc.source)),
        extract_court(doc.source)))

RECURSIVE ProcessDocuments(_, _, _)
ProcessDocuments(st, docs, idx) ==
    IF idx > Len(docs) \/ st.raised THEN st
    ELSE ProcessDocuments(ProcessDocument(st, docs[idx], idx), docs, idx + 1)

\* "Build all entity nodes": the node lists of the six handlers, in this order
\* "Build all entity nodes" with the judges' nodes put before the citations'
EntityNodesJudgesFirst(h) ==
    build_judge_nodes(h.judges)
      \o build_citation_nodes(h.citations)
      \o build_advocate_nodes(h.advocates)
      \o build_outcome_nodes(h.outcomes)
      \o build_case_duration_nodes(h.case_durations)
      \o build_court_nodes(h.courts)

EntityNodes(h) ==
    build_citation_nodes(h.citations)
      \o build_judge_nodes(h.judges)
      \o build_advocate_nodes(h.advocates)
      \o build_outcome_nodes(h.outcomes)
      \o build_case_duration_nodes(h.case_durations)
      \o build_court_nodes(h.courts)

NoMutation == [query |-> <<>>, set |-> <<>>, status |-> "raised"]

\* "Create final mutation": the handlers after the call, and what it returned
FinalMutation(st) ==
    [h |-> st.h,
     result |->
         IF st.raised THEN NoMutation
         ELSE [query |-> st.query, set |-> st.set \o EntityNodes(st.h),
               status |-> "returned"]]

\* MutationBuilder.build_mutation on a builder whose handlers are h
build_mutation(h, docs) ==
    FinalMutation(ProcessDocuments(StartBuild(ResetHandlers(h)), docs, 1))

\* ------------------------------------------------------- entity detector

\* "x and len(x) > 0": len() of a number is a TypeError
HasItems(x) == Truthy(x)
LenRaises(x) == x.k = "num"

Label(cond, name) == IF cond THEN <<name>> ELSE <<>>

\* detect_entities_in_document: the labels found, in the order of the checks
detect_entities_in_document(doc) ==
    LET source == doc.source
    IN  [ok |-> ~(\/ LenRaises(source.citations)
                  \/ LenRaises(source.judges)
                  \/ LenRaises(source.petitioner_advocates)
                  \/ (~Truthy(source.petitioner_advocates)
                        /\ LenRaises(source.respondant_advocates))
                  \/ LenRaises(source.acts)),
         val |->
             Label(Truthy(source.title), "judgment")
               \o Label(HasItems(source.citations), "citations")
               \o Label(HasItems(source.judges), "judges")
               \o Label(HasItems(source.petitioner_advocates)
                          \/ HasItems(source.respondant_advocates), "advocates")
               \o Label(Truthy(source.outcome), "outcome")
               \o Label(Truthy(source.case_duration), "case_duration")
               \o Label(Truthy(source.court), "court")
               \o Label(Truthy(source.decision_date), "decision_date")
               \o Label(Truthy(source.filing_date), "filing_date")
               \o Label(Truthy(source.petitioner_party), "petitioner_party")
               \o Label(Truthy(source.respondant_party), "respondant_party")
               \o Label(Truthy(source.case_number), "case_number")
               \o Label(Truthy(source.summary), "summary")
               \o Label(Truthy(source.case_type), "case_type")
               \o Label(Truthy(source.neutral_citation), "neutral_citation")
               \o Label(HasItems(source.acts), "acts")]

\* ------------------------------------------------------- input documents

A == <<"a">>
B == <<"b">>
SpA == <<SP, "a">>                \* " a": "a" after strip()
Blank == <<SP>>                   \* " ": empty after strip()
AResp == <<"a", RESPONDANT>>      \* "a_respondant"
A_A == <<"a", USCORE, "a">>       \* "a_a"
DocA == <<DOCPFX, "a">>           \* "doc_a"
JsonAB == <<QUOTE, "a", "b", QUOTE>>   \* the JSON text "ab" (quotes included)
One1 == <<DIGIT>>                 \* "1": the JSON text of a number
A4 == <<"a", "a", "a", "a">>      \* "aaaa" and "aaaab": two names with one
A4B == A4 \o <<"b">>              \* truncated digest
AQ == <<"a", QUOTE>>              \* a" : a text with a double quote

EmptySource ==
    [citations |-> Missing, judges |-> Missing, petitioner_advocates |-> Missing,
     respondant_advocates |-> Missing, outcome |-> Missing, case_duration |-> Missing,
     court |-> Missing, court_location |-> Missing,
     court_bench |-> Missing, title |-> Missing, doc_id |-> Missing,
     year |-> Missing, processed_timestamp |-> Missing,
     acts |-> Missing, decision_date |-> Missing,
     filing_date |-> Missing, petitioner_party |-> Missing,
     respondant_party |-> Missing, case_number |-> Missing, summary |-> Missing,
     case_type |-> Missing, neutral_citation |-> Missing]

\* The documents of the model: each fills the fields of one entity type and
\* leaves the others absent; MixedSources fill several.
RootSources ==
    {[EmptySource EXCEPT !.title = t, !.doc_id = d] :
        t \in {Missing, Str(A), Str(Blank), Null},
        d \in {Missing, Str(A), Str(DocA)}}
      \cup {[EmptySource EXCEPT !.title = Str(A), !.year = y,
                                !.processed_timestamp = y] :
              y \in {Null, Str(<<>>), Num}}

JudgeSources ==
    {[EmptySource EXCEPT !.judges = j] :
        j \in {Lst(<<Str(A)>>), Lst(<<Str(A), Str(B)>>), Lst(<<Str(SpA), Str(A)>>),
               Lst(<<Str(Blank)>>), Lst(<<>>), Str(A), Null,
               Lst(<<Null, Str(B)>>), Num, Lst(<<Str(A4), Str(A4B)>>)}}

CitationSources ==
    {[EmptySource EXCEPT !.citations = c] :
        c \in {Lst(<<Str(A)>>), Lst(<<Str(SpA)>>), Lst(<<Str(A), Str(B)>>),
               Lst(<<Str(Blank)>>), Str(A), Str(JsonAB), Str(One1), Num}}

OutcomeSources ==
    {[EmptySource EXCEPT !.outcome = o] :
        o \in {Str(A), Str(SpA), Str(B), Str(Blank), Null}}
      \cup {[EmptySource EXCEPT !.case_duration = o] :
              o \in {Str(A), Str(SpA), Str(Blank)}}

AdvocateSources ==
    {[EmptySource EXCEPT !.petitioner_advocates = p, !.respondant_advocates = r] :
        p \in {Missing, Lst(<<Str(A)>>), Lst(<<Str(AResp)>>), Lst(<<Str(SpA)>>)},
        r \in {Missing, Lst(<<Str(A)>>), Lst(<<Str(AResp)>>), Lst(<<Str(B)>>)}}
      \ {EmptySource}

CourtSources ==
    {[EmptySource EXCEPT !.court = c, !.court_location = l, !.court_bench = b] :
        c \in {Str(A), Str(A_A)},
        l \in {Missing, Str(A), Str(B)},
        b \in {Missing, Str(B)}}
      \cup {[EmptySource EXCEPT !.court = Str(Blank), !.court_location = Str(A)]}

\* the documents update_specific_field.py fetches: those with a court_bench
BenchSources ==
    {[EmptySource EXCEPT !.court = Str(A), !.court_location = Str(A),
                         !.court_bench = Str(B)],
     [EmptySource EXCEPT !.court = Str(A), !.court_bench = Str(A)],
     [EmptySource EXCEPT !.court_bench = Str(B)]}

OtherSources ==
    {[EmptySource EXCEPT !.decision_date = Str(A)],
     [EmptySource EXCEPT !.doc_id = Str(AQ), !.judges = Lst(<<Str(AQ)>>)],
     [EmptySource EXCEPT !.acts = Lst(<<Str(A)>>)],
     [EmptySource EXCEPT !.acts = Lst(<<>>), !.summary = Str(<<>>)]}

MixedSources ==
    {[EmptySource EXCEPT !.title = Str(A), !.citations = Lst(<<Str(B)>>),
                         !.judges = Lst(<<Str(A)>>),
                         !.petitioner_advocates = Lst(<<Str(A)>>),
                         !.respondant_advocates = Lst(<<Str(A)>>),
                         !.outcome = Str(A), !.case_duration = Str(A),
                         !.court = Str(A), !.court_location = Str(A)],
     [EmptySource EXCEPT !.title = Str(B), !.citations = Lst(<<Str(A)>>),
                         !.judges = Lst(<<Str(A)>>), !.outcome = Str(Blank)],
     [EmptySource EXCEPT !.title = Str(A), !.judges = Lst(<<Str(B)>>)],
     [EmptySource EXCEPT !.title = Str(B), !.judges = Lst(<<Str(B)>>),
                         !.citations = Lst(<<Str(A)>>)]}

Sources ==
    RootSources \cup JudgeSources \cup CitationSources \cup OutcomeSources
      \cup AdvocateSources \cup CourtSources \cup OtherSources \cup MixedSources

\* Documents fetched together have distinct _id values: the _id of the
\* document at each place of a batch, in the batches of the model
IdPlans == {<<A, B, DocA>>, <<DocA, A, B>>}

MaxDocs == 2

\* the batch of the documents whose _source are src, with the _id values ids
Batch(ids, src) == [i \in DOMAIN src |-> [source |-> src[i], id |-> ids[i]]]

\* ------------------------------------------------------ the graph store

\* A stored node: the types written to dgraph.type, the scalar attributes, and
\* for each relation the set of stored nodes its edges point to.  The store is
\* the list of its nodes; a node's uid is its place in the list.
NewNode == [attrs |-> NoKeys, edges |-> NoKeys, types |-> {}]

\* the text a quoted literal of the query block stands for: \" is a quote and
\* \\ a backslash; a bare quote ends the literal early and a backslash before
\* anything else (or at the end) is no escape, so the block does not parse
RECURSIVE Literal(_)
Literal(s) ==
    IF s = <<>> THEN [ok |-> TRUE, val |-> <<>>]
    ELSE IF Head(s) = QUOTE THEN [ok |-> FALSE, val |-> <<>>]
    ELSE IF Head(s) = BACKSLASH
    THEN IF Len(s) >= 2 /\ s[2] \in {QUOTE, BACKSLASH}
         THEN [ok |-> Literal(Tail(Tail(s))).ok,
               val |-> <<s[2]>> \o Literal(Tail(Tail(s))).val]
         ELSE [ok |-> FALSE, val |-> <<>>]
    ELSE [ok |-> Literal(Tail(s)).ok, val |-> <<Head(s)>> \o Literal(Tail(s)).val]

HasAttr(node, attr, text) ==
    attr \in DOMAIN node.attrs /\ node.attrs[attr] = Str(text)

\* "<var> as var(func: eq(<attr>, "<val>")) @filter(type(<type>) AND
\* eq(<fattr>, "<fval>"))": the stored nodes the clause binds to its variable
Matches(nodes, clause) ==
    {u \in DOMAIN nodes :
        /\ HasAttr(nodes[u], clause.attr, Literal(clause.val).val)
        /\ clause.type = "" \/ clause.type \in nodes[u].types
        /\ clause.fattr = ""
             \/ HasAttr(nodes[u], clause.fattr, Literal(clause.fval).val)}

\* relations declared "uid" in src/schema.py hold one target, "[uid]" many
SingleUid == {"has_outcome", "has_case_duration", "court_heard_in"}

RelationOrder ==
    <<"cites", "judged_by", "petitioner_represented_by",
      "respondant_represented_by", "has_outcome", "has_case_duration",
      "court_heard_in">>

RECURSIVE Concat(_)
Concat(seqs) == IF seqs = <<>> THEN <<>> ELSE Head(seqs) \o Concat(Tail(seqs))

RECURSIVE Distinct(_)
Distinct(q) ==
    IF q = <<>> THEN <<>>
    ELSE LET rest == Distinct(Tail(q))
         IN  IF \E i \in DOMAIN rest : rest[i] = Head(q) THEN rest
             ELSE <<Head(q)>> \o rest

\* every uid(<var>) of the 'set' list, in the order of the list
UsedVars(m) ==
    Distinct(Concat([i \in DOMAIN m.set |->
        <<m.set[i].uid>>
          \o Concat([r \in DOMAIN RelationOrder |->
                        IF RelationOrder[r] \in DOMAIN m.set[i].edges
                        THEN m.set[i].edges[RelationOrder[r]] ELSE <<>>])]))

\* the request is refused when the query block does not parse or a uid(<var>)
\* names a variable no clause defines
Accepted(m) ==
    /\ \A i \in DOMAIN m.query :
          Literal(m.query[i].val).ok /\ Literal(m.query[i].fval).ok
    /\ \A j \in DOMAIN UsedVars(m) :
          \E i \in DOMAIN m.query : m.query[i].var = UsedVars(m)[j]

Bound(nodes, m, var) ==
    UNION {Matches(nodes, m.query[i]) : i \in {k \in DOMAIN m.query : m.query[k].var = var}}

\* the variables that matched nothing: each stands for one new node
SelectEmpty(nodes, m, vs) ==
    SelectSeq(vs, LAMBDA v : Bound(nodes, m, v) = {})

Place(q, x) == CHOOSE i \in DOMAIN q : q[i] = x

\* the stored nodes uid(<var>) stands for: the nodes its clause matched or,
\* when it matched none, the one new node of the variable
Targets(nodes, m, var) ==
    IF Bound(nodes, m, var) # {} THEN Bound(nodes, m, var)
    ELSE {Len(nodes) + Place(SelectEmpty(nodes, m, UsedVars(m)), var)}

EdgeTargets(nodes, m, vs) == UNION {Targets(nodes, m, vs[i]) : i \in DOMAIN vs}

\* one object of 'set' written to one stored node: attributes are overwritten,
\* a list relation gains the targets, a single relation is replaced
WriteNode(nodes, m, old, obj) ==
    [attrs |-> obj.attrs @@ old.attrs,
     edges |->
        [rel \in DOMAIN obj.edges \cup DOMAIN old.edges |->
            IF rel \notin DOMAIN obj.edges THEN old.edges[rel]
            ELSE IF rel \in SingleUid \/ rel \notin DOMAIN old.edges
            THEN EdgeTargets(nodes, m, obj.edges[rel])
            ELSE old.edges[rel] \cup EdgeTargets(nodes, m, obj.edges[rel])],
     types |-> old.types \cup (IF obj.type = "" THEN {} ELSE {obj.type})]

\* the objects of 'set' from the i-th on written to the store 'cur'; the
\* variables are bound against 'nodes', the store before the mutation
RECURSIVE WriteObjects(_, _, _, _)
WriteObjects(nodes, m, cur, i) ==
    IF i > Len(m.set) THEN cur
    ELSE WriteObjects(nodes, m,
            [u \in DOMAIN cur |->
                IF u \in Targets(nodes, m, m.set[i].uid)
                THEN WriteNode(nodes, m, cur[u], m.set[i]) ELSE cur[u]],
            i + 1)

\* POST /mutate?commitNow=true with {"query": ..., "set": ...}: the upsert
\* block applied to the store as one transaction
Upsert(nodes, m) ==
    IF ~Accepted(m) THEN nodes
    ELSE WriteObjects(nodes, m,
            nodes \o [k \in 1..Len(SelectEmpty(nodes, m, UsedVars(m))) |-> NewNode],
            1)

\* ------------------------------------------ update_specific_field.py

\* the loop over the documents of build_court_bench_update: courts_to_update
\* (first bench_type of a key is kept) and judgment_to_court; a document
\* without court name or court_bench is skipped, a field that is not a string
\* raises at .strip()
RECURSIVE BenchScan(_, _, _, _)
BenchScan(docs, i, courts_to_update, judgment_to_court) ==
    IF i > Len(docs)
    THEN [ok |-> TRUE, courts |-> courts_to_update, links |-> judgment_to_court]
    ELSE LET source == docs[i].source
             title == StripField(source.title)
             court == extract_court(source)
             court_key == CourtKey(court.name, court.location)
             courts1 ==
                 IF InCache(courts_to_update, court_key) THEN courts_to_update
                 ELSE Append(courts_to_update,
                             [name |-> court.name, location |-> court.location,
                              key |-> court_key, hash |-> get_hash(court_key),
                              bench_type |-> court.bench])
         IN  IF ~(title.ok /\ court.ok)
             THEN [ok |-> FALSE, courts |-> <<>>, links |-> <<>>]
             ELSE IF court.name = <<>> \/ court.bench = <<>>
             THEN BenchScan(docs, i + 1, courts_to_update, judgment_to_court)
             ELSE BenchScan(docs, i + 1, courts1,
                      Append(judgment_to_court,
                             [doc_id |-> docs[i].id,
                              court_var |-> Var("court", CacheGet(courts1, court_key).hash)]))

\* the lookup clause of a court of courts_to_update
BenchCourtClause(court_data) ==
    IF court_data.location # <<>>
    THEN Clause(Var("court", court_data.hash), "name", EscapeQuotes(court_data.name),
                "Court", "location", EscapeQuotes(court_data.location))
    ELSE Clause(Var("court", court_data.hash), "name", EscapeQuotes(court_data.name),
                "Court", "", <<>>)

\* the Court object of 'set': court_id, name, bench_type and, when it is not
\* empty, location
BenchCourtNode(court_data) ==
    Node(Var("court", court_data.hash), "Court",
         ("court_id" :> IdText(Var("court", court_data.hash)))
           @@ ("name" :> Str(court_data.name))
           @@ ("bench_type" :> Str(court_data.bench_type))
           @@ OptionalKey(court_data.location # <<>>, "location",
                          Str(court_data.location)),
         NoKeys)

\* build_court_bench_update: court clauses, then one clause main_<k> per kept
\* document looking up "J_" + _id; Court objects, then one object per kept
\* document that holds only uid(main_<k>) and court_heard_in (type "" is an
\* object without dgraph.type)
build_court_bench_update(docs) ==
    LET scan == BenchScan(docs, 1, <<>>, <<>>)
    IN  IF ~scan.ok THEN [query |-> <<>>, set |-> <<>>, status |-> "raised"]
        ELSE [query |->
                  [c \in DOMAIN scan.courts |-> BenchCourtClause(scan.courts[c])]
                    \o [k \in DOMAIN scan.links |->
                          Clause(Var("main", k), "judgment_id",
                                 <<"J_">> \o scan.links[k].doc_id, "", "", <<>>)],
              set |->
                  [c \in DOMAIN scan.courts |-> BenchCourtNode(scan.courts[c])]
                    \o [k \in DOMAIN scan.links |->
                          Node(Var("main", k), "", NoKeys,
                               "court_heard_in" :> <<scan.links[k].court_var>>)],
              status |-> "returned"]

\* ------------------------------------------------------- the state machine

\* the batches a builder that has built before is given
ReuseSources ==
    {[EmptySource EXCEPT !.judges = Lst(<<Str(A)>>)],
     [EmptySource EXCEPT !.respondant_advocates = Lst(<<Str(A)>>),
                         !.court = Str(A)]}

MaxBuilds == 2
MaxUploads == 2

NothingBuilt == [query |-> <<>>, set |-> <<>>, status |-> "none"]

\* the documents an Elasticsearch index can hold: hits with _id and _source.
\* The third has no field the entity detector looks at; the fourth has a
\* number where a list of judges is expected, at which the build raises.
ESDocuments ==
    <<[source |-> [EmptySource EXCEPT !.title = Str(A), !.judges = Lst(<<Str(A)>>),
                                      !.court = Str(A), !.court_bench = Str(B)],
       id |-> A],
      [source |-> [EmptySource EXCEPT !.outcome = Str(A), !.acts = Lst(<<Str(A)>>)],
       id |-> B],
      [source |-> [EmptySource EXCEPT !.court_bench = Str(B)],
       id |-> A_A],
      [source |-> [EmptySource EXCEPT !.title = Str(B), !.judges = Num],
       id |-> A4]>>

\* The coroutines of the service's event loop: the monitor loop created by
\* startup_event, the one /start adds as a background task, the handler of
\* /process-now; and the process_new_entity script, a process of its own.
MonitorTasks == {"startup_monitor", "background_monitor"}
LoopTasks == MonitorTasks \cup {"process_now"}
Tasks == LoopTasks \cup {"process_new_entity"}

\* a task: the statement it executes next, its local documents, the result
\* of its upload_to_dgraph call, the --entity argument (script only), and
\* whether the call it is in sleeps between two attempts
NoTask == [documents |-> <<>>, pc |-> "none", uploaded |-> FALSE, entity |-> "", backoff |-> FALSE]

\* no call of a retrying function has been made
NoCall == [result |-> "none", fn |-> "", retry |-> FALSE, retries |-> 0, delay |-> 0, attempts |-> 0, reply |-> ""]

\* the documents of the batches whose mutations are uploaded
StoreSources ==
    {EmptySource,
     [EmptySource EXCEPT !.judges = Lst(<<Str(A)>>), !.outcome = Str(A)],
     [EmptySource EXCEPT !.petitioner_advocates = Lst(<<Str(AResp)>>)],
     [EmptySource EXCEPT !.respondant_advocates = Lst(<<Str(A)>>),
                         !.court = Str(A), !.court_location = Str(A)],
     [EmptySource EXCEPT !.title = Str(A), !.citations = Lst(<<Str(A)>>)],
     [EmptySource EXCEPT !.court = Str(A)]}

Init ==
    /\ documents = <<>>
    /\ handlers = NewHandlers
    /\ mutation = NothingBuilt
    /\ builds = 0
    /\ store = <<>>
    /\ uploads = 0
    /\ monitor_state = [is_running |-> FALSE, total_processed |-> 0]
    /\ tasks = [t \in Tasks |-> NoTask]
    /\ current = ""
    /\ processed_entities = [i \in DOMAIN ESDocuments |-> {}]
    /\ response = [endpoint |-> "", status_code |-> 0]
    /\ requests = 0
    /\ index = {}
    /\ call = NoCall

\* the builder and the result after a build_mutation call on docs
Built(r, docs) ==
    /\ documents' = docs
    /\ handlers' = r.h
    /\ mutation' = r.result
    /\ builds' = builds + 1
    /\ UNCHANGED <<store, uploads, service, call>>

\* build_dgraph_mutation(docs): a new MutationBuilder builds the batch
build_dgraph_mutation(docs) ==
    /\ builds = 0
    /\ Built(build_mutation(NewHandlers, docs), docs)

\* builder.build_mutation(docs) on the builder that built the last batch
BuildMutation(docs) ==
    /\ builds \in 1..(MaxBuilds - 1)
    /\ Built(build_mutation(handlers, docs), docs)

Next ==
    \/ \E n \in 1..MaxDocs, ids \in IdPlans :
          \E src \in [1..n -> Sources] : build_dgraph_mutation(Batch(ids, src))
    \/ \E n \in 1..MaxDocs, ids \in IdPlans :
          \E src \in [1..n -> ReuseSources] : BuildMutation(Batch(ids, src))

Spec == Init /\ [][Next]_vars

\* One cycle of monitor_and_process builds the mutation of the batch it
\* fetched with a new builder ...
BuildBatch(docs) ==
    /\ builds < MaxBuilds
    /\ Built(build_mutation(NewHandlers, docs), docs)

\* ... and upload_to_dgraph posts it; with retry, or when the documents are
\* not marked processed, the same mutation is posted again
upload_to_dgraph ==
    /\ mutation.status = "returned"
    /\ uploads < MaxUploads
    /\ store' = Upsert(store, mutation)
    /\ uploads' = uploads + 1
    /\ UNCHANGED <<documents, handlers, mutation, builds, service, call>>

\* update_specific_field.main for --field court_bench: the mutation of
\* build_court_bench_update is posted once by upload_mutation
update_court_bench(docs) ==
    /\ builds < MaxBuilds
    /\ uploads < MaxUploads
    /\ build_court_bench_update(docs).status = "returned"
    /\ documents' = docs
    /\ mutation' = build_court_bench_update(docs)
    /\ builds' = builds + 1
    /\ store' = Upsert(store, build_court_bench_update(docs))
    /\ uploads' = uploads + 1
    /\ UNCHANGED <<handlers, service, call>>

NextStore ==
    \/ \E n \in 1..MaxDocs, ids \in IdPlans :
          \E src \in [1..n -> StoreSources] : BuildBatch(Batch(ids, src))
    \/ upload_to_dgraph
    \/ \E n \in 1..MaxDocs, ids \in IdPlans :
          \E src \in [1..n -> BenchSources] : update_court_bench(Batch(ids, src))

SpecStore == Init /\ [][NextStore]_vars

\* ---------------------------------------------------------- the service
\* main.py, api_endpoints.py, monitor.py, process_new_entity.py: one step per
\* statement that calls out; what a call returns is the caller's input.

MaxRequests == 2

\* a loop whose upload call gave up the thread (an awaited upload)
AwaitPointsWithUpload == {"sleep", "upload"}

\* A coroutine gives up the thread only where it awaits: the only await of
\* monitor_and_process is asyncio.sleep(CHECK_INTERVAL), process_now has none
\* (requests.post and time.sleep block the thread).
AwaitPoints == {"sleep"}

\* a loop that does not read the flag ("while True:")
LoopForever == TRUE

\* the loop condition of monitor_and_process
LoopContinues == monitor_state.is_running

\* a caller that marks whatever the upload returned
MarksAlways(uploaded) == TRUE

\* "if upload_to_dgraph(mutation, retry=True):" guards the marking
MarksAfter(uploaded) == uploaded

\* the entity_types list of monitor_and_process
entity_types ==
    {"judgment", "citations", "judges", "advocates", "outcome", "case_duration",
     "court", "decision_date", "filing_date", "petitioner_party",
     "respondant_party", "case_number", "summary", "case_type",
     "neutral_citation", "acts"}

\* the --entity choices of the script that name one field
EntityChoices == {"court_bench", "acts"}

\* the app has started
Started == tasks["startup_monitor"].pc # "none"

\* task t is at statement pc and can run: a coroutine needs the thread
At(t, pc) ==
    /\ tasks[t].pc = pc
    /\ t \in LoopTasks => current \in {"", t}

\* t has executed a statement and is now new; a coroutine keeps the thread
\* unless it awaits or returns
Moved(t, new) ==
    /\ tasks' = [tasks EXCEPT ![t] = new]
    /\ current' = IF t \notin LoopTasks THEN current
                  ELSE IF new.pc \in AwaitPoints \cup {"done"} THEN "" ELSE t

\* what process_now answers when it returns at this point (the other tasks
\* answer nothing)
Answer(t, code) ==
    IF t = "process_now"
    THEN response' = [endpoint |-> "/process-now", status_code |-> code]
    ELSE UNCHANGED response

\* where t continues after a failed call: the monitor loop sleeps and tries
\* again, process_now raises HTTPException(500), the script exits
Failed(t) == IF t \in MonitorTasks THEN "sleep" ELSE "done"

\* the hits with these positions, in index order
Hits(S) == SelectSeq([i \in DOMAIN ESDocuments |-> i], LAMBDA i : i \in S)

\* the batches a fetch can return, as positions of hits
Batches == {Hits(S) : S \in SUBSET DOMAIN ESDocuments}

\* the documents of a batch
DocsOf(batch) == [k \in DOMAIN batch |-> ESDocuments[batch[k]]]

\* what a new MutationBuilder returns for each batch (build_dgraph_mutation,
\* MutationBuilder().build_mutation)
Mutations == [batch \in Batches |-> build_mutation(NewHandlers, DocsOf(batch)).result]

\* detect_entities_in_batch raises for no document of the batch
Detectable == {batch \in Batches : \A k \in DOMAIN batch : detect_entities_in_document(ESDocuments[batch[k]]).ok}

\* {"exists": {"field": f}}: the field holds a value
Exists(v) == v.k \notin {"missing", "null"} /\ v # Lst(<<>>)

\* fetch_unprocessed_documents(es): processed_to_dgraph is not true; every
\* marking that sets an entity type sets processed_to_dgraph too
Unprocessed == {i \in index : processed_entities[i] = {}}

\* fetch_documents_missing_entity(es, field)
MissingEntity(field) ==
    {i \in index :
        Exists(ESDocuments[i].source[field]) /\ field \notin processed_entities[i]}

\* the entity types t marks on the hit at position i: the monitor loop its
\* whole list, process_now what detect_entities_in_batch found, the script
\* its field
MarkedTypes(t, i) ==
    IF t \in MonitorTasks THEN entity_types
    ELSE IF t = "process_now"
         THEN LET found == detect_entities_in_document(ESDocuments[i]).val
              IN  {found[j] : j \in DOMAIN found}
         ELSE {tasks[t].entity}

\* the documents the index holds when the service and the script start
Indexes == {{1, 2}, {3}, {1, 4}}

\* an indexer outside this repository has filled the index
index_documents(hits) ==
    /\ index = {}
    /\ \A t \in Tasks : tasks[t].pc = "none"
    /\ index' = hits
    /\ UNCHANGED <<monitor_state, tasks, current, processed_entities, response, requests, builder, store, call>>

\* main.py startup_event
startup_event ==
    /\ ~Started
    /\ monitor_state' = [monitor_state EXCEPT !.is_running = TRUE]
    /\ tasks' = [tasks EXCEPT !["startup_monitor"] = [NoTask EXCEPT !.pc = "loop"]]
    /\ UNCHANGED <<current, processed_entities, response, requests, builder, store, call, index>>

\* POST /start; that apply_dgraph_schema failed changes the message only
start_monitoring ==
    /\ Started
    /\ current = ""
    /\ requests < MaxRequests
    /\ requests' = requests + 1
    /\ IF monitor_state.is_running
       THEN /\ response' = [endpoint |-> "/start", status_code |-> 400]
            /\ UNCHANGED <<monitor_state, tasks>>
       ELSE /\ tasks["background_monitor"].pc \in {"none", "done"}
            /\ monitor_state' = [monitor_state EXCEPT !.is_running = TRUE]
            /\ tasks' = [tasks EXCEPT !["background_monitor"] = [NoTask EXCEPT !.pc = "loop"]]
            /\ response' = [endpoint |-> "/start", status_code |-> 200]
    /\ UNCHANGED <<current, processed_entities, builder, store, call, index>>

\* POST /stop
stop_monitoring ==
    /\ Started
    /\ current = ""
    /\ requests < MaxRequests
    /\ requests' = requests + 1
    /\ IF ~monitor_state.is_running
       THEN /\ response' = [endpoint |-> "/stop", status_code |-> 400]
            /\ UNCHANGED monitor_state
       ELSE /\ monitor_state' = [monitor_state EXCEPT !.is_running = FALSE]
            /\ response' = [endpoint |-> "/stop", status_code |-> 200]
    /\ UNCHANGED <<tasks, current, processed_entities, builder, store, call, index>>

\* GET /status
get_status ==
    /\ Started
    /\ current = ""
    /\ requests < MaxRequests
    /\ requests' = requests + 1
    /\ response' = [endpoint |-> "/status", status_code |-> 200]
    /\ UNCHANGED <<monitor_state, tasks, current, processed_entities, builder, store, call, index>>

\* POST /process-now: the handler starts, the response is to come
process_now ==
    /\ Started
    /\ current = ""
    /\ requests < MaxRequests
    /\ tasks["process_now"].pc \in {"none", "done"}
    /\ requests' = requests + 1
    /\ response' = [endpoint |-> "/process-now", status_code |-> 0]
    /\ Moved("process_now", [NoTask EXCEPT !.pc = "connect"])
    /\ UNCHANGED <<monitor_state, processed_entities, builder, store, call, index>>

\* python process_new_entity.py --entity <entity>, run once
process_new_entity(entity) ==
    /\ tasks["process_new_entity"].pc = "none"
    /\ Moved("process_new_entity", [NoTask EXCEPT !.pc = "connect", !.entity = entity])
    /\ UNCHANGED <<monitor_state, processed_entities, response, requests, builder, store, call, index>>

\* while monitor_state["is_running"]:
while_is_running(t) ==
    /\ t \in MonitorTasks
    /\ At(t, "loop")
    /\ Moved(t, [tasks[t] EXCEPT !.pc = IF LoopContinues THEN "connect" ELSE "done"])
    /\ UNCHANGED <<monitor_state, processed_entities, response, requests, builder, store, call, index>>

\* es = connect_to_elasticsearch(retry=True); es.ping() in the script
connect(t, ok) ==
    /\ At(t, "connect")
    /\ Moved(t, [tasks[t] EXCEPT !.pc = IF ok THEN "fetch" ELSE Failed(t),
                                 !.backoff = FALSE])
    /\ IF ok THEN UNCHANGED response ELSE Answer(t, 500)
    /\ UNCHANGED <<monitor_state, processed_entities, requests, builder, store, call, index>>

\* documents = fetch_...(es): [] when the search raised. With no documents
\* the monitor loop sleeps, process_now returns, and process_court_bench /
\* process_acts return True without an upload, so that main goes on to mark.
fetch(t, ok) ==
    /\ At(t, "fetch")
    /\ LET found == IF ~ok THEN <<>>
                    ELSE IF t = "process_new_entity"
                         THEN Hits(MissingEntity(tasks[t].entity))
                         ELSE Hits(Unprocessed)
           next == IF t = "process_new_entity"
                   THEN (IF found = <<>> THEN "mark" ELSE "build")
                   ELSE IF found = <<>> THEN Failed(t) ELSE "schema"
       IN  /\ Moved(t, [tasks[t] EXCEPT !.pc = next, !.documents = found, !.uploaded = FALSE])
           /\ IF next = "done" THEN Answer(t, 200) ELSE UNCHANGED response
    /\ UNCHANGED <<monitor_state, processed_entities, requests, builder, store, call, index>>

\* apply_dgraph_schema(retry=True): before the build in the service, after
\* it in the script
schema(t, ok) ==
    /\ At(t, "schema")
    /\ Moved(t, [tasks[t] EXCEPT !.pc = IF ~ok THEN Failed(t)
                                        ELSE IF t = "process_new_entity" THEN "upload"
                                        ELSE "build",
                                 !.backoff = FALSE])
    /\ IF ok THEN UNCHANGED response ELSE Answer(t, 500)
    /\ UNCHANGED <<monitor_state, processed_entities, requests, builder, store, call, index>>

\* neither detect_entities_in_batch (process_now) nor the build raises
BuildReturns(t) ==
    /\ t = "process_now" => tasks[t].documents \in Detectable
    /\ Mutations[tasks[t].documents].status = "returned"

\* mutation = build_dgraph_mutation(documents) (process_now detects the
\* entities first); an exception ends the cycle, the request or the script
build(t) ==
    /\ At(t, "build")
    /\ Moved(t, [tasks[t] EXCEPT !.pc = IF ~BuildReturns(t) THEN Failed(t)
                                        ELSE IF t = "process_new_entity" THEN "schema"
                                        ELSE "upload"])
    /\ IF BuildReturns(t) THEN UNCHANGED response ELSE Answer(t, 500)
    /\ UNCHANGED <<monitor_state, processed_entities, requests, builder, store, call, index>>

\* upload_to_dgraph(mutation, retry=True): True after a 200 response
upload(t, ok) ==
    /\ At(t, "upload")
    /\ Moved(t, [tasks[t] EXCEPT !.pc = IF MarksAfter(ok) THEN "mark" ELSE Failed(t),
                                 !.uploaded = ok, !.backoff = FALSE])
    /\ store' = IF ok THEN Upsert(store, Mutations[tasks[t].documents])
                ELSE store
    /\ IF MarksAfter(ok) THEN UNCHANGED response ELSE Answer(t, 500)
    /\ UNCHANGED <<monitor_state, processed_entities, requests, builder, call, index>>

\* mark_documents_processed / mark_documents_with_per_doc_entities: one
\* es.update per document; the first n succeed, an exception ends the loop
\* (a document without entity types is skipped by the second function). When
\* the function returns True the service adds len(documents) to
\* total_processed.
mark(t, n) ==
    /\ At(t, "mark")
    /\ n \in 0..Len(tasks[t].documents)
    /\ processed_entities' =
          [i \in DOMAIN ESDocuments |->
              IF \E k \in 1..n : tasks[t].documents[k] = i
              THEN processed_entities[i] \cup MarkedTypes(t, i)
              ELSE processed_entities[i]]
    /\ monitor_state' =
          IF t \in LoopTasks /\ n = Len(tasks[t].documents)
          THEN [monitor_state EXCEPT !.total_processed = @ + Len(tasks[t].documents)]
          ELSE monitor_state
    /\ Moved(t, [tasks[t] EXCEPT !.pc = Failed(t)])
    /\ Answer(t, IF n = Len(tasks[t].documents) THEN 200 ELSE 500)
    /\ UNCHANGED <<requests, builder, store, call, index>>

\* await asyncio.sleep(CHECK_INTERVAL) is over
asyncio_sleep(t) ==
    /\ At(t, "sleep")
    /\ Moved(t, [tasks[t] EXCEPT !.pc = "loop"])
    /\ UNCHANGED <<monitor_state, processed_entities, response, requests, builder, store, call, index>>

\* The call a task of the event loop is in (retry=True) has made a failed
\* attempt that was not its last: its loop is in time.sleep(delay), which
\* does not give up the thread. (The script sleeps in a process of its own,
\* where nothing else waits for the thread.)
retry_backoff(t) ==
    /\ t \in LoopTasks
    /\ At(t, "connect") \/ At(t, "schema") \/ At(t, "upload")
    /\ ~tasks[t].backoff
    /\ Moved(t, [tasks[t] EXCEPT !.backoff = TRUE])
    /\ UNCHANGED <<monitor_state, processed_entities, response, requests, builder, store, call, index>>

\* the next statement of task t
TaskStep(t) ==
    \/ while_is_running(t)
    \/ retry_backoff(t)
    \/ \E ok \in BOOLEAN : connect(t, ok)
    \/ \E ok \in BOOLEAN : fetch(t, ok)
    \/ \E ok \in BOOLEAN : schema(t, ok)
    \/ build(t)
    \/ \E ok \in BOOLEAN : upload(t, ok)
    \/ \E n \in 0..Len(ESDocuments) : mark(t, n)
    \/ asyncio_sleep(t)

NextService ==
    \/ \E hits \in Indexes : index_documents(hits)
    \/ startup_event
    \/ start_monitoring
    \/ stop_monitoring
    \/ get_status
    \/ process_now
    \/ \E entity \in EntityChoices : process_new_entity(entity)
    \/ \E t \in Tasks : TaskStep(t)

SpecService == Init /\ [][NextService]_vars

\* The event loop runs every coroutine that is ready, and the blocking calls
\* return (their retry loops are bounded); the script's process runs on.
SpecServiceFair == SpecService /\ \A t \in Tasks : WF_vars(TaskStep(t))

\* The service while the document source and the graph store are available:
\* every connect, search, schema post, upload and update succeeds.
TaskStepAvailable(t) ==
    \/ while_is_running(t)
    \/ connect(t, TRUE)
    \/ fetch(t, TRUE)
    \/ schema(t, TRUE)
    \/ build(t)
    \/ upload(t, TRUE)
    \/ mark(t, Len(tasks[t].documents))
    \/ asyncio_sleep(t)

NextAvailable ==
    \/ \E hits \in Indexes : index_documents(hits)
    \/ startup_event
    \/ start_monitoring
    \/ stop_monitoring
    \/ get_status
    \/ process_now
    \/ \E entity \in EntityChoices : process_new_entity(entity)
    \/ \E t \in Tasks : TaskStepAvailable(t)

\* Fairness as in SpecServiceFair: a task's next statement is enabled in the
\* same states whether or not its call can fail, and here every step of a
\* task is one of TaskStepAvailable.
SpecAvailable ==
    Init /\ [][NextAvailable]_vars /\ \A t \in Tasks : WF_vars(TaskStep(t))

\* ------------------------------------------------------ the retry loops
\* connect_to_elasticsearch, apply_dgraph_schema and upload_to_dgraph share
\* one loop: "while True: try: <attempt> except: retries += 1; if not retry
\* or retries >= MAX_RETRIES: return <failure>; time.sleep(delay); delay *= 2"

MAX_RETRIES == 20
RETRY_DELAY == 30

RetryFunctions == {"connect_to_elasticsearch", "apply_dgraph_schema", "upload_to_dgraph"}

\* a loop that gives up one attempt later
GiveUpLate(retry, retries) == ~retry \/ retries > MAX_RETRIES

\* "if not retry or retries >= MAX_RETRIES:" after a failed attempt
GiveUp(retry, retries) == ~retry \/ retries >= MAX_RETRIES

\* fn(retry=retry) is called: retries = 0, delay = RETRY_DELAY
CallWithRetry(fn, retry) ==
    /\ call.result # "running"
    /\ call' = [result |-> "running", fn |-> fn, retry |-> retry, retries |-> 0,
                delay |-> RETRY_DELAY, attempts |-> 0, reply |-> ""]
    /\ UNCHANGED <<builder, store, service>>

\* What an attempt meets. The graph store answers with status 200 and a JSON
\* body that reports code Success, or uids, or errors, or with status 200 and
\* a body that is not JSON, or with another status; or the request raises.
\* For connect_to_elasticsearch "Success" is a ping answered by a cluster
\* that has the index, "exception" anything else.
Replies(fn) ==
    IF fn = "connect_to_elasticsearch" THEN {"Success", "exception"}
    ELSE {"Success", "uids", "errors", "not_json", "status_500", "exception"}

\* "if response.status_code == 200:" every branch below it returns True
Succeeds(reply) == reply \in {"Success", "uids", "errors", "not_json"}

\* one pass of the loop: the try block succeeds and the function returns its
\* value, or it raises and the except block counts, gives up or sleeps
Attempt(reply) ==
    /\ call.result = "running"
    /\ reply \in Replies(call.fn)
    /\ call' = IF Succeeds(reply)
               THEN [call EXCEPT !.attempts = @ + 1, !.result = "success",
                                 !.reply = reply]
               ELSE IF GiveUp(call.retry, call.retries + 1)
                    THEN [call EXCEPT !.attempts = @ + 1, !.retries = @ + 1,
                                      !.result = "failure", !.reply = reply]
                    ELSE [call EXCEPT !.attempts = @ + 1, !.retries = @ + 1,
                                      !.delay = @ * 2, !.reply = reply]
    /\ UNCHANGED <<builder, store, service>>

\* every reply an attempt can meet
AllReplies == UNION {Replies(fn) : fn \in RetryFunctions}

NextRetry ==
    \/ \E fn \in RetryFunctions, retry \in BOOLEAN : CallWithRetry(fn, retry)
    \/ \E reply \in AllReplies : Attempt(reply)

\* every attempt returns or raises (the posts carry a timeout) and every
\* sleep ends, so the loop goes on to its next pass
SpecRetry == Init /\ [][NextRetry]_vars /\ WF_vars(\E reply \in AllReplies : Attempt(reply))

\* ------------------------------------------------- reading a mutation

Returned == mutation.status = "returned"

SeqSet(q) == {q[i] : i \in DOMAIN q}

\* the variables a node's relation key refers to (none when it has no such key)
EdgesOf(node, rel) == IF rel \in DOMAIN node.edges THEN node.edges[rel] ELSE <<>>

NodeKeys(node) == DOMAIN node.attrs \cup DOMAIN node.edges

\* the Judgment node of the d-th document of the batch
Root(d) == mutation.set[d]

\* the places in 'set' of the sub-entity nodes whose variable has this prefix
NodesOf(pfx) == {i \in DOMAIN mutation.set : mutation.set[i].uid.pfx = pfx}

\* the variables bound by a clause of the query block
BoundVars == {mutation.query[i].var : i \in DOMAIN mutation.query}

\* the normalized values of each document of the batch
One(text) == IF text = <<>> THEN <<>> ELSE <<text>>
DocCitations(d) == extract_citations(documents[d].source).val
DocJudges(d) == extract_judges(documents[d].source).val
DocPetitioners(d) == extract_advocates(documents[d].source).petitioner
DocRespondants(d) == extract_advocates(documents[d].source).respondant
DocOutcome(d) == One(extract_outcome(documents[d].source).val)
DocDuration(d) == One(extract_case_duration(documents[d].source).val)
DocCourt(d) == extract_court(documents[d].source)

Relations ==
    {"cites", "judged_by", "petitioner_represented_by",
     "respondant_represented_by", "has_outcome", "has_case_duration",
     "court_heard_in"}

DocValues(d, rel) ==
    CASE rel = "cites" -> DocCitations(d)
      [] rel = "judged_by" -> DocJudges(d)
      [] rel = "petitioner_represented_by" -> DocPetitioners(d)
      [] rel = "respondant_represented_by" -> DocRespondants(d)
      [] rel = "has_outcome" -> DocOutcome(d)
      [] rel = "has_case_duration" -> DocDuration(d)
      [] rel = "court_heard_in" -> One(DocCourt(d).name)

\* ------------------------------------------------------------------ C1

\* For one text-keyed entity type (variable prefix pfx, relation rel, key
\* attribute attr): 'set' holds exactly one node per distinct key of the
\* batch, and the j-th value of every document refers to the variable of the
\* node of its key, so equal keys refer to the same variable.
OneNodePerKey(pfx, rel, attr) ==
    LET set == mutation.set
        docs == DOMAIN documents
        keys == UNION {SeqSet(DocValues(d, rel)) : d \in docs}
    IN  /\ \A k \in keys :
              Cardinality({i \in NodesOf(pfx) : set[i].attrs[attr] = Str(k)}) = 1
        /\ Cardinality(NodesOf(pfx)) = Cardinality(keys)
        /\ \A d \in docs :
              /\ Len(EdgesOf(Root(d), rel)) = Len(DocValues(d, rel))
              /\ \A j \in DOMAIN DocValues(d, rel) :
                    \E i \in NodesOf(pfx) :
                        /\ set[i].attrs[attr] = Str(DocValues(d, rel)[j])
                        /\ set[i].uid = EdgesOf(Root(d), rel)[j]
        /\ \A d1, d2 \in docs :
              \A j1 \in DOMAIN DocValues(d1, rel), j2 \in DOMAIN DocValues(d2, rel) :
                  DocValues(d1, rel)[j1] = DocValues(d2, rel)[j2]
                    => EdgesOf(Root(d1), rel)[j1] = EdgesOf(Root(d2), rel)[j2]

\* C1: in every mutation build_mutation returns, for Judge, Outcome,
\* CaseDuration and Citation, 'set' holds exactly one node for each distinct
\* trimmed key value of the batch, and every Judgment node whose document
\* holds that value refers to the same lookup variable for it.
C1_OneNodePerTextKey ==
    Returned =>
        /\ OneNodePerKey("judge", "judged_by", "name")
        /\ OneNodePerKey("outcome", "has_outcome", "name")
        /\ OneNodePerKey("duration", "has_case_duration", "duration")
        /\ OneNodePerKey("cite", "cites", "title")

\* two documents of the batch name the same judge, one of them with
\* surrounding blanks, and one document names it twice
C1_Witness ==
    /\ Returned
    /\ Len(documents) = 2
    /\ documents[1].source.judges = Lst(<<Str(SpA), Str(A)>>)
    /\ documents[2].source.judges = Lst(<<Str(A), Str(B)>>)
    /\ Cardinality(NodesOf("judge")) = 2

\* ------------------------------------------------------------------ C2

StoredText(u, attr) ==
    IF attr \in DOMAIN store[u].attrs THEN <<store[u].attrs[attr]>> ELSE <<>>

IsJudgment(u) == "Judgment" \in store[u].types /\ "judgment_id" \in DOMAIN store[u].attrs

\* the type and natural key of a stored sub-entity node; cited judgments are
\* the Judgment nodes known by their title only
NaturalKeys(u) ==
    {<<t, StoredText(u, "name")>> : t \in store[u].types \cap {"Judge", "Outcome"}}
      \cup {<<t, StoredText(u, "duration")>> : t \in store[u].types \cap {"CaseDuration"}}
      \cup {<<t, StoredText(u, "name"), StoredText(u, "advocate_type")>> :
              t \in store[u].types \cap {"Advocate"}}
      \cup {<<t, StoredText(u, "name"), StoredText(u, "location")>> :
              t \in store[u].types \cap {"Court"}}
      \cup {<<"Citation", StoredText(u, "title")>> :
              t \in {x \in store[u].types : x = "Judgment" /\ ~IsJudgment(u)}}

\* C2: starting from an empty store and applying the built mutations one at a
\* time, the store never holds two Judgment nodes with the same judgment_id
\* nor two nodes of one sub-entity type with the same natural key.
C2_NoDuplicateNodes ==
    \A u1, u2 \in DOMAIN store :
        u1 # u2 =>
            /\ ~(/\ IsJudgment(u1) /\ IsJudgment(u2)
                 /\ store[u1].attrs["judgment_id"] = store[u2].attrs["judgment_id"])
            /\ NaturalKeys(u1) \cap NaturalKeys(u2) = {}

\* ------------------------------------------------------------------ C3

\* C3: in every mutation build_mutation returns, each lookup variable that
\* 'set' refers to as uid(<var>), as a node's own uid or as the target of an
\* edge, is bound by a clause "<var> as var(...)" of the query block.
C3_EveryVarBound ==
    Returned =>
        \A i \in DOMAIN mutation.set :
            /\ mutation.set[i].uid \in BoundVars
            /\ \A rel \in DOMAIN mutation.set[i].edges :
                  SeqSet(mutation.set[i].edges[rel]) \subseteq BoundVars

\* the second document refers to a judge whose clause the first document's
\* turn emitted, on a builder that has built a batch before
C3_Witness ==
    /\ Returned
    /\ builds = 2
    /\ Len(documents) = 2
    /\ EdgesOf(Root(1), "judged_by") # <<>>
    /\ EdgesOf(Root(1), "judged_by") = EdgesOf(Root(2), "judged_by")

\* ------------------------------------------------------------- C5, C7

\* the advocate occurrences of the batch: document, role, place in the list
AdvocateOccurrences ==
    UNION {{[j |-> j, d |-> d, role |-> "petitioner"] :
                j \in DOMAIN DocPetitioners(d)}
             \cup {[j |-> j, d |-> d, role |-> "respondant"] :
                     j \in DOMAIN DocRespondants(d)} : d \in DOMAIN documents}

AdvocateNames(o) ==
    IF o.role = "petitioner" THEN DocPetitioners(o.d) ELSE DocRespondants(o.d)

AdvocateRel(o) ==
    IF o.role = "petitioner"
    THEN "petitioner_represented_by" ELSE "respondant_represented_by"

AdvocateName(o) == AdvocateNames(o)[o.j]
AdvocateVar(o) == EdgesOf(Root(o.d), AdvocateRel(o))[o.j]

\* C5: two advocate occurrences of a batch resolve to the same lookup
\* variable (hence the same Advocate node) if and only if they have the same
\* trimmed name and the same role.
C5_AdvocateIdentity ==
    Returned =>
        \A o1, o2 \in AdvocateOccurrences :
            AdvocateVar(o1) = AdvocateVar(o2)
              <=> (AdvocateName(o1) = AdvocateName(o2) /\ o1.role = o2.role)

\* C7: for every advocate name that is a petitioner's in one document and a
\* respondant's in another (or the same) document of the batch, 'set' holds
\* two distinct Advocate nodes bound to two distinct lookup variables, one
\* with advocate_type petitioner and one with advocate_type respondant.
C7_RoleSeparation ==
    Returned =>
        \A o1, o2 \in AdvocateOccurrences :
            /\ o1.role = "petitioner" /\ o2.role = "respondant"
            /\ AdvocateName(o1) = AdvocateName(o2)
            => \E i1, i2 \in NodesOf("adv") :
                  /\ mutation.set[i1].uid = AdvocateVar(o1)
                  /\ mutation.set[i2].uid = AdvocateVar(o2)
                  /\ mutation.set[i1].uid # mutation.set[i2].uid
                  /\ mutation.set[i1].attrs["advocate_type"] = Str(<<"petitioner">>)
                  /\ mutation.set[i2].attrs["advocate_type"] = Str(<<"respondant">>)

\* ------------------------------------------------------------------ C6

HasCourt(d) == DocCourt(d).name # <<>>
CourtVar(d) == EdgesOf(Root(d), "court_heard_in")[1]

\* C6: two court occurrences of a batch resolve to the same lookup variable
\* (hence the same Court node) if and only if they have the same trimmed name
\* and the same location, an absent location being equal only to an absent
\* one, whatever their court_bench values.
C6_CourtIdentity ==
    Returned =>
        \A d1, d2 \in DOMAIN documents :
            HasCourt(d1) /\ HasCourt(d2) =>
                (CourtVar(d1) = CourtVar(d2)
                   <=> (/\ DocCourt(d1).name = DocCourt(d2).name
                        /\ DocCourt(d1).location = DocCourt(d2).location))

\* ------------------------------------------------------------------ C8

\* C8: for every document and every relation, if the document's normalized
\* value for the relation is absent or empty, the document's Judgment node
\* has no key for the relation: no empty list, no null.
C8_Omission ==
    Returned =>
        \A d \in DOMAIN documents :
            /\ \A rel \in Relations :
                  DocValues(d, rel) = <<>> => rel \notin DOMAIN Root(d).edges
            /\ \A rel \in DOMAIN Root(d).edges : Root(d).edges[rel] # <<>>

\* a document without a citations field and with judges that are blank after
\* trimming, next to a document that has judges
C8_Witness ==
    /\ Returned
    /\ Len(documents) = 2
    /\ documents[1].source.citations = Missing
    /\ documents[1].source.judges = Lst(<<Str(Blank)>>)
    /\ "judged_by" \in DOMAIN Root(2).edges
    /\ DOMAIN Root(1).edges = {}

\* ------------------------------------------------------------- C9, C10

Labels ==
    {"judgment", "citations", "judges", "advocates", "outcome", "case_duration",
     "court", "decision_date", "filing_date", "petitioner_party",
     "respondant_party", "case_number", "summary", "case_type",
     "neutral_citation", "acts"}

\* the keys of a Judgment node that carry an entity type: the title for the
\* judgment itself, the relation(s) of the type (src/schema.py names them)
LabelKeys(label) ==
    CASE label = "judgment" -> {"title"}
      [] label = "citations" -> {"cites"}
      [] label = "judges" -> {"judged_by"}
      [] label = "advocates" ->
            {"petitioner_represented_by", "respondant_represented_by"}
      [] label = "outcome" -> {"has_outcome"}
      [] label = "case_duration" -> {"has_case_duration"}
      [] label = "court" -> {"court_heard_in"}
      [] label = "decision_date" -> {"has_decision_date"}
      [] label = "filing_date" -> {"has_filing_date"}
      [] label = "petitioner_party" -> {"has_petitioner_party"}
      [] label = "respondant_party" -> {"has_respondant_party"}
      [] label = "case_number" -> {"has_case_number"}
      [] label = "summary" -> {"has_summary"}
      [] label = "case_type" -> {"has_case_type"}
      [] label = "neutral_citation" -> {"has_neutral_citation"}
      [] label = "acts" -> {"cites_act"}

Detected(d) == detect_entities_in_document(documents[d])

\* C9: for every document and every label detect_entities_in_document
\* reports for it, the document's Judgment node in the mutation built from
\* the batch carries a corresponding edge or attribute.
C9_DetectedIsEmitted ==
    Returned =>
        \A d \in DOMAIN documents :
            Detected(d).ok =>
                \A label \in SeqSet(Detected(d).val) :
                    LabelKeys(label) \cap NodeKeys(Root(d)) # {}

\* C10: for every document and every label detect_entities_in_document does
\* not report for it, the mutation holds no node, edge or attribute of that
\* entity type for the document.
C10_UndetectedIsNotEmitted ==
    Returned =>
        \A d \in DOMAIN documents :
            Detected(d).ok =>
                \A label \in Labels \ SeqSet(Detected(d).val) :
                    LabelKeys(label) \cap NodeKeys(Root(d)) = {}

\* ----------------------------------------------------------------- C11

\* the place of an entity type in 'set': roots, then Citation, Judge,
\* Advocate, Outcome, CaseDuration, Court
TypeRank(pfx) ==
    CASE pfx = "main" -> 0
      [] pfx = "cite" -> 1
      [] pfx = "judge" -> 2
      [] pfx = "adv" -> 3
      [] pfx = "outcome" -> 4
      [] pfx = "duration" -> 5
      [] pfx = "court" -> 6

\* every reference of the roots to a sub-entity, in the order the documents
\* and, within a document, the handlers were gone through
Refs ==
    Concat([d \in DOMAIN documents |->
        Concat([r \in DOMAIN RelationOrder |-> EdgesOf(Root(d), RelationOrder[r])])])

IsRef(var) == \E k \in DOMAIN Refs : Refs[k] = var

FirstRef(var) ==
    CHOOSE k \in DOMAIN Refs : Refs[k] = var /\ \A m \in 1..(k - 1) : Refs[m] # var

HandlerCaches ==
    ("cite" :> handlers.citations) @@ ("judge" :> handlers.judges)
      @@ ("adv" :> handlers.advocates) @@ ("outcome" :> handlers.outcomes)
      @@ ("duration" :> handlers.case_durations) @@ ("court" :> handlers.courts)

\* the keys of a handler's dict that were given this variable
KeysOf(var) ==
    {k \in DOMAIN HandlerCaches[var.pfx] :
        Var(var.pfx, HandlerCaches[var.pfx][k].hash) = var}

\* the places in the query block of the clauses that bind this variable
ClausesOf(var) == {i \in DOMAIN mutation.query : mutation.query[i].var = var}

\* the document whose processing appended the i-th clause: the query block is
\* one root clause per document, each followed by that document's new clauses
Segment(i) == Cardinality({k \in 1..i : mutation.query[k].var.pfx = "main"})

RefsOfDoc(d) ==
    SeqSet(Concat([r \in DOMAIN RelationOrder |-> EdgesOf(Root(d), RelationOrder[r])]))

Sum6(f) ==
    Len(f["cite"]) + Len(f["judge"]) + Len(f["adv"]) + Len(f["outcome"])
      + Len(f["duration"]) + Len(f["court"])

\* C12: within one build_mutation call every distinct key of every entity
\* type gets exactly one lookup clause, appended while the document of its
\* first occurrence is processed; later occurrences add no clause, so the
\* query block holds one clause per document plus one per unique identity.
C12_OneClausePerKey ==
    Returned =>
        /\ Len(mutation.query) = Len(documents) + Sum6(HandlerCaches)
        /\ \A d \in DOMAIN documents : Cardinality(ClausesOf(Var("main", d))) = 1
        /\ \A i \in DOMAIN mutation.query :
              LET var == mutation.query[i].var
              IN  var.pfx # "main" =>
                      /\ Cardinality(ClausesOf(var)) = Cardinality(KeysOf(var))
                      /\ var \in RefsOfDoc(Segment(i))
                      /\ Cardinality(KeysOf(var)) = 1 =>
                            \A e \in 1..(Segment(i) - 1) : var \notin RefsOfDoc(e)
        /\ \A d \in DOMAIN documents : \A var \in RefsOfDoc(d) : ClausesOf(var) # {}

\* two documents with the same outcome: the second occurrence is served from
\* the handler's dict
C12_Witness ==
    /\ Returned
    /\ Len(documents) = 2
    /\ \E o \in NodesOf("outcome") :
          /\ mutation.set[o].uid \in RefsOfDoc(1) \cap RefsOfDoc(2)
          /\ Cardinality(ClausesOf(mutation.set[o].uid)) = 1
    /\ Len(mutation.query) = 3

\* ----------------------------------------------------------------- C13

\* the variables that two or more distinct keys of one handler were given
CollidingVars ==
    {mutation.query[i].var : i \in {k \in DOMAIN mutation.query :
        /\ mutation.query[k].var.pfx # "main"
        /\ Cardinality(KeysOf(mutation.query[k].var)) >= 2}}

\* C13: two distinct natural keys of one entity type whose truncated
\* identifiers coincide are treated as one entity: a single lookup clause and
\* a single node for the shared variable.
C13_CollisionIsOneEntity ==
    Returned =>
        \A var \in CollidingVars :
            /\ Cardinality(ClausesOf(var)) = 1
            /\ Cardinality({i \in DOMAIN mutation.set : mutation.set[i].uid = var}) = 1

\* ----------------------------------------------------------------- C14

\* C14: build_mutation called on a builder that has already built earlier
\* batches returns exactly what a newly constructed builder returns for the
\* same documents.
C14_ReuseEqualsFresh ==
    mutation.status # "none" =>
        mutation = build_mutation(NewHandlers, documents).result

\* the second batch of one builder, holding a judge and a court that the
\* handlers may have seen in the first batch
C14_Witness ==
    /\ builds = 2
    /\ Returned
    /\ NodesOf("judge") # {}
    /\ NodesOf("court") # {}
    /\ NodesOf("adv") # {}

\* ----------------------------------------------------------------- C15

\* what a new builder returns for a batch of one document that holds only
\* the doc_id and the _id of the d-th document
OwnIdOnly(d) ==
    build_mutation(NewHandlers,
        <<[source |-> [EmptySource EXCEPT !.doc_id = documents[d].source.doc_id],
           id |-> documents[d].id]>>).result

\* C15: the judgment_id of a document depends only on its own doc_id (or
\* _id): it is the same whatever the position of the document in the batch
\* and whatever the other fields and the other documents are.
C15_JudgmentIdIsOwn ==
    Returned =>
        \A d \in DOMAIN documents :
            /\ OwnIdOnly(d).status = "returned"
            /\ \A i \in ClausesOf(Var("main", d)) :
                  mutation.query[i].val = OwnIdOnly(d).query[1].val
            /\ Root(d).attrs["judgment_id"] = OwnIdOnly(d).set[1].attrs["judgment_id"]

\* a second document that takes its id from _id, after a first one with
\* another id and with entities of its own
C15_Witness ==
    /\ Returned
    /\ Len(documents) = 2
    /\ documents[2].source.doc_id = Missing
    /\ documents[1].source.title # Missing
    /\ Root(1).attrs["judgment_id"] # Root(2).attrs["judgment_id"]
    /\ Len(mutation.set) > 2

\* ----------------------------------------------------------------- C16

\* C16: applying a built mutation a second time, immediately after it was
\* applied once, leaves the store as the first application left it.
C16_SecondUploadChangesNothing ==
    Returned => Upsert(Upsert(store, mutation), mutation) = Upsert(store, mutation)

\* ----------------------------------------------------------------- C17

\* the type and natural key of every sub-entity the documents of the batch
\* name, in the shape of NaturalKeys
KeysOfDoc(d) ==
    {<<"Citation", <<Str(c)>>>> : c \in SeqSet(DocCitations(d))}
      \cup {<<"Judge", <<Str(j)>>>> : j \in SeqSet(DocJudges(d))}
      \cup {<<"Advocate", <<Str(p)>>, <<Str(<<"petitioner">>)>>>> :
              p \in SeqSet(DocPetitioners(d))}
      \cup {<<"Advocate", <<Str(r)>>, <<Str(<<"respondant">>)>>>> :
              r \in SeqSet(DocRespondants(d))}
      \cup {<<"Outcome", <<Str(o)>>>> : o \in SeqSet(DocOutcome(d))}
      \cup {<<"CaseDuration", <<Str(c)>>>> : c \in SeqSet(DocDuration(d))}
      \cup {<<"Court", <<Str(DocCourt(d).name)>>, IF l = <<>> THEN <<>> ELSE <<Str(l)>>>> :
              l \in {x \in {DocCourt(d).location} : DocCourt(d).name # <<>>}}

BatchKeys == UNION {KeysOfDoc(d) : d \in DOMAIN documents}

\* the edges of the store that point to the node u
Incoming(nodes, u) ==
    {<<w, rel>> \in (DOMAIN nodes) \X Relations :
        rel \in DOMAIN nodes[w].edges /\ u \in nodes[w].edges[rel]}

\* C17: applying a built mutation changes stored nodes only for the
\* identities the batch references: a stored sub-entity node whose natural
\* key the batch does not reference keeps all its attributes, its identifier
\* attribute included, and gains no incoming edge.
C17_UnreferencedUntouched ==
    [][uploads' = uploads + 1 =>
          \A u \in DOMAIN store :
              (NaturalKeys(u) # {} /\ NaturalKeys(u) \cap BatchKeys = {}) =>
                  /\ store'[u].attrs = store[u].attrs
                  /\ store'[u].types = store[u].types
                  /\ Incoming(store', u) \subseteq Incoming(store, u)]_vars

\* ----------------------------------------------------------------- C18

\* the normalized title of the d-th document
DocTitle(d) == StripField(documents[d].source.title).val

\* the documents D1 (title a, judge b) and D2 (title b, judge b, citing a)
IsCrossCitingBatch ==
    /\ Len(documents) = 2
    /\ documents[1].source =
          [EmptySource EXCEPT !.title = Str(A), !.judges = Lst(<<Str(B)>>)]
    /\ documents[2].source =
          [EmptySource EXCEPT !.title = Str(B), !.judges = Lst(<<Str(B)>>),
                              !.citations = Lst(<<Str(A)>>)]

\* the places in 'set', after the roots, of the nodes with this uid
SubNodesOf(var) ==
    {i \in (Len(documents) + 1)..Len(mutation.set) : mutation.set[i].uid = var}

\* C18: a citation whose title equals the title of a document of the same
\* batch gets a Citation node and a cite_ variable of its own, distinct from
\* the main_ variable of that document's root node; the batch D1 (title a,
\* judge b), D2 (title b, judge b, citing a) gives exactly two root nodes, one
\* Citation node and one Judge node.
C18_CitedBatchTitleHasOwnNode ==
    Returned =>
        /\ \A d, e \in DOMAIN documents :
              \A k \in DOMAIN DocCitations(d) :
                  DocCitations(d)[k] = DocTitle(e) =>
                      LET var == EdgesOf(Root(d), "cites")[k]
                      IN  /\ var.pfx = "cite"
                          /\ var # Root(e).uid
                          /\ Cardinality(ClausesOf(var)) = 1
                          /\ Cardinality(SubNodesOf(var)) = 1
                          /\ \A i \in SubNodesOf(var) :
                                /\ mutation.set[i].type = "Judgment"
                                /\ mutation.set[i].attrs = ("title" :> Str(DocTitle(e)))
        /\ IsCrossCitingBatch =>
              /\ Len(mutation.set) = 4
              /\ {i \in DOMAIN mutation.set : mutation.set[i].uid.pfx = "main"} = {1, 2}
              /\ Cardinality(NodesOf("cite")) = 1
              /\ Cardinality(NodesOf("judge")) = 1

\* the batch D1, D2 has been built
C18_Witness ==
    /\ Returned
    /\ IsCrossCitingBatch
    /\ EdgesOf(Root(2), "cites") # <<>>
    /\ EdgesOf(Root(1), "judged_by") = EdgesOf(Root(2), "judged_by")

\* ----------------------------------------------------------------- C19

ListFields == {"citations", "judges", "petitioner_advocates", "respondant_advocates"}

SingularFields ==
    {"title", "doc_id", "outcome", "case_duration", "court", "court_location",
     "court_bench"}

\* a document whose singular fields are absent or strings and whose list-like
\* fields are absent, scalars, strings, or lists of strings and nulls
ListShapeOnly(source) ==
    /\ \A f \in SingularFields : source[f].k \in {"missing", "str"}
    /\ \A f \in ListFields :
          \/ source[f].k \in {"missing", "str", "num"}
          \/ /\ source[f].k = "list"
             /\ \A i \in DOMAIN source[f].v : source[f].v[i].k \in {"str", "null"}

\* what the handlers extracted from a list-like field of the d-th document
Extracted(d, f) ==
    CASE f = "citations" -> DocCitations(d)
      [] f = "judges" -> DocJudges(d)
      [] f = "petitioner_advocates" -> DocPetitioners(d)
      [] f = "respondant_advocates" -> DocRespondants(d)

\* C19: extraction of a list-like field never raises to the caller: when the
\* value is a scalar or a string that is not an encoded list, build_mutation
\* completes, and for a string the extracted list is the raw string as its
\* single item, or empty.
C19_ListFieldsNeverRaise ==
    (/\ mutation.status # "none"
     /\ \A d \in DOMAIN documents : ListShapeOnly(documents[d].source)) =>
        /\ Returned
        /\ \A d \in DOMAIN documents : \A f \in ListFields :
              documents[d].source[f].k = "str" =>
                  Extracted(d, f) \in {<<>>, <<documents[d].source[f].v>>,
                                       <<Strip(documents[d].source[f].v)>>}

\* ----------------------------------------------------------------- C20

\* the document with the key of every field that holds null taken out
NullAsMissing(doc) ==
    [source |-> [f \in DOMAIN doc.source |->
                    IF f \in SingularFields \cup ListFields /\ doc.source[f] = Null
                    THEN Missing ELSE doc.source[f]],
     id |-> doc.id]

HoldsNull(doc) == \E f \in SingularFields \cup ListFields : doc.source[f] = Null

\* C20: a field present with the value null is treated exactly like a missing
\* field, for the singular fields and for the list fields alike: the build
\* completes and gives what it gives for the documents without those keys.
C20_NullIsMissing ==
    (mutation.status # "none" /\ \E d \in DOMAIN documents : HoldsNull(documents[d])) =>
        /\ Returned
        /\ mutation =
              build_mutation(NewHandlers,
                  [d \in DOMAIN documents |-> NullAsMissing(documents[d])]).result

\* ----------------------------------------------------------------- C21

\* null, the empty string or the empty list
IsEmptyValue(x) ==
    \/ x.k \in {"null", "missing"}
    \/ x.k \in {"str", "list"} /\ x.v = <<>>

\* C21: no node of 'set' carries an attribute whose value is null, an empty
\* string or an empty list: an attribute whose source value is absent or
\* empty after trimming is left out of the node (the Judgment node's title,
\* year and processed_timestamp, the Court node's location and bench_type).
C21_NoEmptyAttribute ==
    Returned =>
        \A i \in DOMAIN mutation.set :
            \A a \in DOMAIN mutation.set[i].attrs :
                ~IsEmptyValue(mutation.set[i].attrs[a])

\* ----------------------------------------------------------------- C27

\* C27: for every advocate occurrence (name, role) of a batch, the Advocate
\* node bound to the variable of the occurrence's edge has name equal to the
\* trimmed name and advocate_type equal to the role: splitting the cache key
\* recovers the (name, role) that made it, also for names that contain the
\* text "_respondant".
C27_KeySplitsBack ==
    Returned =>
        \A o \in AdvocateOccurrences :
            \A i \in NodesOf("adv") :
                mutation.set[i].uid = AdvocateVar(o) =>
                    /\ mutation.set[i].attrs["name"] = Str(AdvocateName(o))
                    /\ mutation.set[i].attrs["advocate_type"] = Str(<<o.role>>)

\* ----------------------------------------------------------------- C28

\* the places in the query block of the root clauses
RootClauses ==
    {i \in DOMAIN mutation.query : mutation.query[i].var.pfx = "main"}

\* C28: for a batch of n documents the query block holds exactly n root
\* clauses main_1 .. main_n, one per document in input order, each looking up
\* that document's judgment_id, and the i-th root node has uid(main_i); the
\* root variables are pairwise distinct and no root clause is suppressed,
\* even when two documents of the batch have the same document id.
C28_RootClausePerDocument ==
    Returned =>
        /\ Cardinality(RootClauses) = Len(documents)
        /\ \A d \in DOMAIN documents :
              /\ Root(d).uid = Var("main", d)
              /\ \E i \in RootClauses :
                    /\ mutation.query[i] =
                          Clause(Var("main", d), "judgment_id",
                                 Root(d).attrs["judgment_id"].v, "", "", <<>>)
                    /\ Cardinality({k \in RootClauses : k <= i}) = d
        /\ \A i, k \in RootClauses :
              i # k => mutation.query[i].var # mutation.query[k].var

\* two documents whose judgment_id is the same: doc_id 'a' in one, _id 'a' in
\* the other
C28_Witness ==
    /\ Returned
    /\ Len(documents) = 2
    /\ Root(1).attrs["judgment_id"] = Root(2).attrs["judgment_id"]
    /\ Cardinality(RootClauses) = 2

\* ----------------------------------------------------------------- C29

\* every double quote of the text comes right after a backslash
NoBareQuote(text) ==
    \A i \in DOMAIN text : text[i] = QUOTE => (i > 1 /\ text[i - 1] = BACKSLASH)

\* C29: every value interpolated between double quotes in a lookup clause
\* (names, titles, locations, durations and the judgment_id) has each
\* embedded double quote escaped as backslash-quote and is otherwise
\* unchanged, so no clause holds an unescaped double quote inside its value.
C29_ValuesEscaped ==
    Returned =>
        /\ \A i \in DOMAIN mutation.query :
              NoBareQuote(mutation.query[i].val) /\ NoBareQuote(mutation.query[i].fval)
        /\ \A d \in DOMAIN documents : \A i \in ClausesOf(Var("main", d)) :
              mutation.query[i].val = EscapeQuotes(Root(d).attrs["judgment_id"].v)
        /\ \A i \in DOMAIN mutation.query :
              mutation.query[i].var.pfx \in {"cite", "judge", "outcome", "duration"} =>
                  \E k \in KeysOf(mutation.query[i].var) :
                      mutation.query[i].val =
                          EscapeQuotes(HandlerCaches[mutation.query[i].var.pfx][k].key)

\* ----------------------------------------------------------------- C24

\* the attributes of a stored node other than bench_type
OtherAttrs(node) ==
    [a \in DOMAIN node.attrs \ {"bench_type"} |-> node.attrs[a]]

\* the store 'new' differs from the store 'old' at most in the bench_type of
\* Court nodes that 'old' holds
BenchTypeOnly(old, new) ==
    /\ Len(new) = Len(old)
    /\ \A u \in DOMAIN old :
          /\ new[u].edges = old[u].edges
          /\ new[u].types = old[u].types
          /\ OtherAttrs(new[u]) = OtherAttrs(old[u])
          /\ new[u].attrs # old[u].attrs => "Court" \in old[u].types

\* C24: the mutation built by build_court_bench_update, applied to the graph
\* store, updates only the bench_type field of Court nodes that already
\* exist: it creates no node and creates or changes no relationship.
C24_BenchUpdateFrame ==
    [][(uploads' = uploads + 1 /\ mutation' = build_court_bench_update(documents'))
          => BenchTypeOnly(store, store')]_vars

\* ------------------------------------------------------------------ C22

\* t has built its mutation and has not finished uploading and marking
InFlight(t) == tasks[t].pc \in {"upload", "mark"}

\* C22: at most one coroutine of the service (the monitor loops and the
\* /process-now handler) is between the building of its mutation and the end
\* of its upload and marking, and it holds the thread all the while.
C22_OneBuildInFlight ==
    \A t \in LoopTasks :
        InFlight(t) => current = t /\ \A u \in LoopTasks \ {t} : ~InFlight(u)

\* one coroutine is in flight while another one is in the middle of its loop
\* with a batch of its own
C22_Witness ==
    \E t \in LoopTasks :
        /\ InFlight(t)
        /\ \E u \in MonitorTasks \ {t} :
              tasks[u].pc = "sleep" /\ tasks[u].documents # <<>>

\* ------------------------------------------------------------------ C23

\* the entity types detect_entities_in_document finds in the i-th hit
DetectedIn(i) ==
    LET found == detect_entities_in_document(ESDocuments[i]).val
    IN  {found[j] : j \in DOMAIN found}

\* C23: an entity type of the detector is marked processed for a document
\* (processed_entities.<type> = true) only if detect_entities_in_document
\* finds that type in the document, whichever path marked it.
C23_MarkedOnlyIfDetected ==
    \A i \in DOMAIN ESDocuments :
        processed_entities[i] \cap entity_types \subseteq DetectedIn(i)

\* ------------------------------------------------------------------ C30

\* t has the i-th hit in its batch
InBatch(t, i) == \E k \in DOMAIN tasks[t].documents : tasks[t].documents[k] = i

\* C30: whenever the marking of a document changes, the step is the marking
\* of a task (monitor loop, /process-now handler or process_new_entity
\* script) that has the document in its batch and whose upload_to_dgraph call
\* for the mutation built from that batch returned success.
C30_MarkedOnlyAfterUpload ==
    [][\A i \in DOMAIN ESDocuments :
          processed_entities'[i] # processed_entities[i] =>
             \E t \in Tasks : /\ tasks[t].pc = "mark"
                              /\ tasks'[t].pc # "mark"
                              /\ tasks[t].uploaded
                              /\ InBatch(t, i)]_vars

\* the script has marked its document after a successful upload while the
\* upload of a monitor loop's batch has failed and left the other unmarked
C30_Witness ==
    /\ tasks["process_new_entity"].pc = "done"
    /\ tasks["process_new_entity"].uploaded
    /\ \E i \in DOMAIN ESDocuments :
          InBatch("process_new_entity", i) /\ processed_entities[i] # {}
    /\ \E t \in MonitorTasks, i \in DOMAIN ESDocuments :
          /\ tasks[t].pc = "sleep"
          /\ ~tasks[t].uploaded
          /\ InBatch(t, i)
          /\ processed_entities[i] = {}

\* ------------------------------------------------------------------ C25

\* monitor loop t is not inside a cycle: not started, about to test the loop
\* condition, asleep, or returned
Idle(t) == tasks[t].pc \in {"none", "loop", "sleep", "done"}

\* every monitor loop has returned
Terminated == \A t \in MonitorTasks : tasks[t].pc \in {"none", "done"}

\* a /stop request is answered in this step
StopAnswered == response'.endpoint = "/stop" /\ requests' = requests + 1

\* C25: while the monitor is stopped (after a /stop that succeeded and before
\* any /start) no monitor loop is inside a cycle, so none uploads a batch or
\* marks a document, and every monitor loop eventually returns unless a
\* /start follows; a /stop while the monitor is not running is answered 400
\* and changes neither the monitor state, the tasks, the markings nor the
\* store.
C25_StopStops ==
    /\ [](~monitor_state.is_running => \A t \in MonitorTasks : Idle(t))
    /\ (Started /\ ~monitor_state.is_running) ~> (monitor_state.is_running \/ Terminated)
    /\ [][StopAnswered /\ ~monitor_state.is_running =>
             /\ response'.status_code = 400
             /\ UNCHANGED <<monitor_state, tasks, processed_entities, store>>]_vars

\* the monitor loop has uploaded and marked a batch, a /stop has stopped it,
\* it has returned, and a second /stop has been rejected
C25_Witness ==
    /\ ~monitor_state.is_running
    /\ response = [endpoint |-> "/stop", status_code |-> 400]
    /\ Terminated
    /\ tasks["startup_monitor"].pc = "done"
    /\ tasks["startup_monitor"].uploaded
    /\ \E i \in DOMAIN ESDocuments : processed_entities[i] = entity_types

\* ------------------------------------------------------------------ C26

\* the number of attempts after which a call that only fails gives up
AttemptLimit == IF call.retry THEN MAX_RETRIES ELSE 1

\* C26: a call of connect_to_elasticsearch, apply_dgraph_schema or
\* upload_to_dgraph makes at most MAX_RETRIES attempts with retry=True and one
\* with retry=False; it returns failure exactly after that many failed
\* attempts; it returns success at its first successful attempt; it makes no
\* attempt after it returned; and it always returns.
C26_RetryTerminates ==
    /\ [](call.attempts <= AttemptLimit)
    /\ [](call.result = "failure" =>
             call.attempts = AttemptLimit /\ call.retries = call.attempts)
    /\ [](call.result = "success" => call.attempts = call.retries + 1)
    /\ [](call.result = "running" => call.attempts = call.retries)
    /\ [][call.result \in {"success", "failure"} =>
             call' = call \/ call'.attempts = 0]_vars
    /\ (call.result = "running") ~> (call.result \in {"success", "failure"})

\* upload_to_dgraph(mutation, retry=True) has returned False after
\* MAX_RETRIES failed attempts and MAX_RETRIES - 1 sleeps, each doubling delay
C26_Witness ==
    /\ call.fn = "upload_to_dgraph"
    /\ call.retry
    /\ call.result = "failure"
    /\ call.attempts = MAX_RETRIES
    /\ call.delay = RETRY_DELAY * 2^(MAX_RETRIES - 1)

\* ------------------------------------------------------------------ C36

\* the external identifier of the d-th document: its source doc_id after
\* strip(), or its _id when that is empty
ExternalId(d) ==
    LET own == StripField(documents[d].source.doc_id)
    IN  IF own.val = <<>> THEN documents[d].id ELSE own.val

\* C36: two documents of a batch with different external identifiers get
\* different judgment_id values from extract_judgment_data.
C36_JudgmentIdInjective ==
    \A d1, d2 \in DOMAIN documents :
        /\ extract_judgment_data(documents[d1], d1).ok
        /\ extract_judgment_data(documents[d2], d2).ok
        /\ ExternalId(d1) # ExternalId(d2)
        => extract_judgment_data(documents[d1], d1).judgment_id
             # extract_judgment_data(documents[d2], d2).judgment_id

\* ------------------------------------------------------------------ C35

\* the last mutation is the one build_court_bench_update builds for the batch
IsBenchUpdate ==
    /\ documents # <<>>
    /\ mutation.status = "returned"
    /\ mutation = build_court_bench_update(documents)

\* the documents build_court_bench_update keeps, in batch order
KeptDocuments == BenchScan(documents, 1, <<>>, <<>>).links

\* C35: in the mutation of build_court_bench_update every root clause looks
\* up the judgment_id that extract_judgment_data gives the same document, and
\* every court clause is a clause CourtRelation builds for the batch.
C35_BenchAddressesSameNodes ==
    IsBenchUpdate /\ build_mutation(NewHandlers, documents).result.status = "returned" =>
        /\ \A i \in RootClauses :
              \E d \in DOMAIN documents :
                 /\ documents[d].id = KeptDocuments[mutation.query[i].var.n].doc_id
                 /\ mutation.query[i].val = extract_judgment_data(documents[d], d).judgment_id
        /\ \A i \in DOMAIN mutation.query \ RootClauses :
              \E k \in DOMAIN build_mutation(NewHandlers, documents).result.query :
                 build_mutation(NewHandlers, documents).result.query[k] = mutation.query[i]

\* ------------------------------------------------------------------ C31

\* monitor loop t has passed its loop test and has not returned: it is inside
\* a cycle or asleep between two checks
InLoop(t) == tasks[t].pc \notin {"none", "loop", "done"}

\* C31: at most one monitor_and_process loop is active at any time, whatever
\* the sequence of application startup, /start and /stop requests.
C31_OneMonitorLoop ==
    \A t, u \in MonitorTasks : InLoop(t) /\ InLoop(u) => t = u

\* ------------------------------------------------------------------ C33

\* C33: upload_to_dgraph returns True only for a reply in which the graph
\* store reports the mutation as applied (code Success, or uids).
C33_TrueOnlyIfAccepted ==
    call.fn = "upload_to_dgraph" /\ call.result = "success" =>
        call.reply \in {"Success", "uids"}

\* ------------------------------------------------------------------ C38

\* the documents that are marked processed
MarkedDocuments == {i \in DOMAIN ESDocuments : processed_entities[i] # {}}

\* C38: monitor_state['total_processed'] never exceeds the number of distinct
\* documents that have been marked processed, and it never decreases.
C38_TotalCountsMarked ==
    /\ [](monitor_state.total_processed <= Cardinality(MarkedDocuments))
    /\ [][monitor_state'.total_processed >= monitor_state.total_processed]_vars

\* ------------------------------------------------------------------ C34

\* /process-now has answered 'Processing completed successfully': the upload
\* and the marking of its batch returned True
CompletedSuccessfully ==
    /\ tasks["process_now"].pc = "done"
    /\ tasks["process_now"].uploaded
    /\ response = [endpoint |-> "/process-now", status_code |-> 200]

\* C34: after /process-now returned 'Processing completed successfully',
\* every document of its batch is marked processed, so that the next
\* fetch_unprocessed_documents returns none of them.
C34_CompletedBatchIsMarked ==
    CompletedSuccessfully =>
        \A k \in DOMAIN tasks["process_now"].documents :
            tasks["process_now"].documents[k] \notin Unprocessed

\* ------------------------------------------------------------------ C32

\* a document of the index from which a mutation can be built
Buildable(i) == i \in index /\ Mutations[<<i>>].status = "returned"

\* C32: with the document source and the graph store available, every
\* unprocessed document that can be built is, while the monitor is running,
\* eventually marked processed (or the monitor is stopped), whatever other
\* documents are fetched with it.
C32_EveryDocumentProcessed ==
    \A i \in DOMAIN ESDocuments :
        (Buildable(i) /\ i \in Unprocessed /\ monitor_state.is_running)
           ~> (i \notin Unprocessed \/ ~monitor_state.is_running)

\* ------------------------------------------------------------------ C37

\* a monitor loop is in the backoff sleep of a retrying call
InBackoff == \E t \in MonitorTasks : tasks[t].backoff

\* C37: while a monitor loop waits in a retry backoff, a /stop or /status
\* request (one more request being within the bound) can be handled: its
\* handler does not have to wait for the backoff and the remaining attempts.
C37_HandledDuringBackoff ==
    InBackoff /\ requests < MaxRequests =>
        ENABLED stop_monitoring /\ ENABLED get_status

====
